---- MODULE Spec2Model ----
(***************************************************************************)
(* logzero: the handler reconciliation engine of logzero/__init__.py.      *)
(*                                                                         *)
(* A logger is a record (level, propagate, handlers); a handler is a       *)
(* record (class, the two logzero marker attributes, level, formatter,     *)
(* target, rotation settings).  The module-level functions of logzero are  *)
(* pure operators on these records, and one action per public function     *)
(* applies them.  fs is the log file and its rotated backups, out the      *)
(* result of the last call of LogFormatter.format, threads the             *)
(* setup_logger calls that run step by step in threads of their own.       *)
(***************************************************************************)
EXTENDS Integers, Sequences, FiniteSets, TLC

VARIABLES loggers, _loglevel, _formatter, fs, last, rec, out, threads, nops, limit

vars == <<loggers, _loglevel, _formatter, fs, last, rec, out, threads, nops, limit>>

\* ---------------------------------------------------------------- bounds
\* number of configuration calls explored from the freshly imported module
MaxOps == 3
\* number of handlers the application attaches directly to one logger
MaxCustom == 1
\* number of calls explored when only the default logger's log file is configured
MaxFileOps == 6
\* number of threads that call setup_logger at the same time
MaxThreads == 2

\* ------------------------------------------------------------- constants
DEBUG == 10
INFO == 20
WARNING == 30

LOGZERO_DEFAULT_LOGGER == "logzero_default"

\* the value of __name__ inside the package, the default of setup_logger's name
MODULE_NAME == "logzero"

\* the severities the calls and the records are drawn from
Levels == {DEBUG, INFO, WARNING}

\* an optional level argument: None is 0 (both are falsy for `x or y`, `if x`)
NoLevel == 0
OptLevels == {NoLevel} \cup Levels

Names == {LOGZERO_DEFAULT_LOGGER, MODULE_NAME}

\* the name of the root logger of logging
ROOT == "root"

\* the default of setup_logger's parameter name: __name__
setup_logger_name_default == MODULE_NAME

\* the loggers logging's manager holds, by name: one object per name
LoggerNames == Names \cup {ROOT}

\* formatter objects, by what distinguishes them
\*   "LogFormatter"        LogFormatter()
\*   "LogFormatterNoColor" LogFormatter(color=False)
\*   "JsonFormatter"       JsonFormatter(..., json_ensure_ascii=False)
\*   "JsonFormatterAscii"  JsonFormatter(..., json_ensure_ascii=True)
\*   "user"                a Formatter object supplied by the caller
\*   "None"                no formatter
NoFormatter == "None"

\* ---------------------------------------------------------------- handlers
\* class hierarchy of logging: RotatingFileHandler < FileHandler < StreamHandler
IsFileHandler(h) == h.kind \in {"FileHandler", "RotatingFileHandler"}

IsRotatingFileHandler(h) == h.kind = "RotatingFileHandler"

IsStreamHandler(h) == h.kind \in {"StreamHandler", "FileHandler", "RotatingFileHandler"}

IsSysLogHandler(h) == h.kind = "SysLogHandler"

\* hasattr(handler, LOGZERO_INTERNAL_LOGGER_ATTR)
IsInternal(h) == h.internal

\* hasattr(handler, LOGZERO_INTERNAL_HANDLER_IS_CUSTOM_LOGLEVEL)
IsCustomLoglevel(h) == h.custom

\* logging.StreamHandler(stream=getattr(sys, log_stream)), flagged internal
NewStreamHandler(log_stream, level, fmt) ==
    [kind |-> "StreamHandler", internal |-> TRUE, custom |-> FALSE,
     level |-> level, fmt |-> fmt, target |-> log_stream, id |-> 0,
     maxBytes |-> 0, backupCount |-> 0]

\* mutant: maxBytes and backupCount are not handed to the RotatingFileHandler
NewFileHandler_no_rotation(filename, level, fmt, custom, maxBytes, backupCount) ==
    [kind |-> "RotatingFileHandler", internal |-> TRUE, custom |-> custom,
     level |-> level, fmt |-> fmt, target |-> filename, id |-> 0,
     maxBytes |-> 0, backupCount |-> 0]

\* RotatingFileHandler(filename, maxBytes=maxBytes, backupCount=backupCount),
\* flagged internal
NewFileHandler(filename, level, fmt, custom, maxBytes, backupCount) ==
    [kind |-> "RotatingFileHandler", internal |-> TRUE, custom |-> custom,
     level |-> level, fmt |-> fmt, target |-> filename, id |-> 0,
     maxBytes |-> maxBytes, backupCount |-> backupCount]

\* SysLogHandler(facility=facility), flagged internal: level NOTSET, no formatter
NewSysLogHandler ==
    [kind |-> "SysLogHandler", internal |-> TRUE, custom |-> FALSE,
     level |-> 0, fmt |-> NoFormatter, target |-> "syslog", id |-> 0,
     maxBytes |-> 0, backupCount |-> 0]

\* a handler the application builds itself: logging.FileHandler(name), no marker
NewApplicationHandler(level, fmt, id) ==
    [kind |-> "FileHandler", internal |-> FALSE, custom |-> FALSE,
     level |-> level, fmt |-> fmt, target |-> "app", id |-> id,
     maxBytes |-> 0, backupCount |-> 0]

\* "no handler": the value None of std_stream_handler
NoHandler ==
    [kind |-> "None", internal |-> FALSE, custom |-> FALSE,
     level |-> 0, fmt |-> NoFormatter, target |-> "", id |-> 0,
     maxBytes |-> 0, backupCount |-> 0]

\* None as a logfile / filename argument (`if logfile:` is false for it)
NoFile == ""

\* None as a log_stream argument
NoStream == "None"

Range(s) == {s[i] : i \in 1..Len(s)}

\* --------------------------------------------------------- JSON rendering
\* code points of the characters of a message: "i" (of "info") and "ß"
LatinI == 105
Eszett == 223

\* the last code point of ASCII
MaxAscii == 127

\* the messages rendered: ASCII only, not ASCII, mixed
Messages == {<<LatinI>>, <<Eszett>>, <<LatinI, Eszett>>}

\* json.dumps(.., ensure_ascii=..) on the characters of a message: a character
\* outside ASCII is written as a \uXXXX escape when ensure_ascii, raw otherwise
json_dumps(message, ensure_ascii) ==
    [i \in DOMAIN message |->
        [code |-> message[i], escaped |-> (ensure_ascii /\ message[i] > MaxAscii)]]

\* JsonFormatter.format: the message as the JSON formatter object renders it,
\* with the json_ensure_ascii it was built with
JsonFormatter_format(fmt, message) ==
    json_dumps(message, fmt = "JsonFormatterAscii")

\* mutant: json_ensure_ascii is not handed to the JsonFormatter
get_json_formatter_raw(json_ensure_ascii) == "JsonFormatter"

\* ----------------------------------------------------------- setup_logger
\* JsonFormatter(custom_format, json_ensure_ascii=json_ensure_ascii)
get_json_formatter(json_ensure_ascii) ==
    IF json_ensure_ascii THEN "JsonFormatterAscii" ELSE "JsonFormatter"

\* mutant: the logger threshold ignores the file level
minLevel_ignores_file(level, fileLoglevel) == level

\* minLevel = fileLoglevel if fileLoglevel and fileLoglevel < level else level
minLevel(level, fileLoglevel) ==
    IF fileLoglevel # NoLevel /\ fileLoglevel < level THEN fileLoglevel ELSE level

\* _get_json_formatter(json_ensure_ascii) if json else formatter or LogFormatter()
resolve_formatter(formatter, json, json_ensure_ascii) ==
    IF json THEN get_json_formatter(json_ensure_ascii)
    ELSE IF formatter # NoFormatter THEN formatter
    ELSE "LogFormatter"

\* if log_stream not in ("stderr", "stdout", None): log_stream = "stderr"
valid_log_stream(log_stream) == log_stream \in {"stderr", "stdout", NoStream}

\* mutant: an invalid log_stream is replaced by "stdout"
checked_log_stream_stdout(log_stream) ==
    IF valid_log_stream(log_stream) THEN log_stream ELSE "stdout"

checked_log_stream(log_stream) ==
    IF valid_log_stream(log_stream) THEN log_stream ELSE "stderr"

\* sys.stderr.name is "<stderr>", sys.stdout.name is "<stdout>"
stream_name(h) == "<" \o h.target \o ">"

\* `log_stream in name`, for the two names a standard stream has
name_contains(name, log_stream) == name = "<" \o log_stream \o ">"

\* mutant: a stream handler is removed on a mismatch only, not for log_stream None
remove_stream_handler_on_mismatch(std_stream_handler, log_stream) ==
    /\ std_stream_handler # NoHandler
    /\ ~ name_contains(stream_name(std_stream_handler), log_stream)

\* log_stream is None or
\*   (std_stream_handler and log_stream not in std_stream_handler.stream.name)
remove_stream_handler(std_stream_handler, log_stream) ==
    \/ log_stream = NoStream
    \/ /\ std_stream_handler # NoHandler
       /\ ~ name_contains(stream_name(std_stream_handler), log_stream)

\* mutant: only handlers flagged internal are given the level and the formatter
reconfigure_handler_internal_only(handler, level, fmt) ==
    IF IsInternal(handler) THEN [handler EXCEPT !.level = level, !.fmt = fmt]
    ELSE handler

\* mutant: a handler that is kept is given the formatter but keeps its level
reconfigure_handler_formatter_only(handler, level, fmt) ==
    [handler EXCEPT !.fmt = fmt]

\* handler.setLevel(level); handler.setFormatter(_formatter)
reconfigure_handler(handler, level, fmt) ==
    [handler EXCEPT !.level = level, !.fmt = fmt]

\* the loop `for handler in list(_logger.handlers)`: the handlers still attached
\* after it, and the value of std_stream_handler
RECURSIVE reconfigure_handlers(_, _, _, _, _)
reconfigure_handlers(hs, std_stream_handler, log_stream, level, fmt) ==
    IF hs = <<>> THEN [handlers |-> <<>>, std |-> std_stream_handler]
    ELSE LET handler == Head(hs) IN
         IF IsInternal(handler) /\ IsFileHandler(handler)
         THEN reconfigure_handlers(Tail(hs), std_stream_handler, log_stream, level, fmt)
         ELSE IF /\ IsInternal(handler)
                 /\ IsStreamHandler(handler)
                 /\ remove_stream_handler(std_stream_handler, log_stream)
         THEN reconfigure_handlers(Tail(hs), std_stream_handler, log_stream, level, fmt)
         ELSE LET h2 == reconfigure_handler(handler, level, fmt)
                  std2 == IF IsInternal(handler) /\ IsStreamHandler(handler)
                          THEN h2 ELSE std_stream_handler
                  rest == reconfigure_handlers(Tail(hs), std2, log_stream, level, fmt)
              IN [handlers |-> <<h2>> \o rest.handlers, std |-> rest.std]

\* mutant: a stream handler is created on every call that asks for a stream
need_stream_handler_always(log_stream, std_stream_handler) ==
    log_stream # NoStream

\* if log_stream is not None and std_stream_handler is None
need_stream_handler(log_stream, std_stream_handler) ==
    log_stream # NoStream /\ std_stream_handler = NoHandler

\* rotating_filehandler.setLevel(fileLoglevel or level)
file_level(fileLoglevel, level) ==
    IF fileLoglevel # NoLevel THEN fileLoglevel ELSE level

\* the defaults of the parameters maxBytes and backupCount: no rotation
DefaultMaxBytes == 0
DefaultBackupCount == 0

\* mutant: the flag isRootLogger is ignored, the name alone selects the logger
getLogger_by_name_only(name, isRootLogger) ==
    IF name = "" \/ name = ROOT THEN ROOT ELSE name

\* logging.getLogger(None if isRootLogger else name): the manager answers with the
\* root logger when it is given no name, an empty name or the root's own name,
\* and with the one logger registered under the name otherwise
getLogger(name, isRootLogger) ==
    IF isRootLogger \/ name = "" \/ name = ROOT THEN ROOT ELSE name

\* mutant: the propagate flag is left as logging set it
propagate_after_setup_kept(lg) == lg.propagate

\* _logger.propagate = False
propagate_after_setup(lg) == FALSE

\* the logger setup_logger returns, given the logger logging.getLogger found
setup_logger(lg, logfile, level, formatter, maxBytes, backupCount, fileLoglevel, log_stream, json, json_ensure_ascii) ==
    LET fmt == resolve_formatter(formatter, json, json_ensure_ascii)
        ls == checked_log_stream(log_stream)
        walk == reconfigure_handlers(lg.handlers, NoHandler, ls, level, fmt)
        withStream == IF need_stream_handler(ls, walk.std)
                      THEN Append(walk.handlers, NewStreamHandler(ls, level, fmt))
                      ELSE walk.handlers
        withFile == IF logfile # NoFile
                    THEN Append(withStream,
                                NewFileHandler(logfile, file_level(fileLoglevel, level), fmt,
                                               FALSE, maxBytes, backupCount))
                    ELSE withStream
    IN [level |-> minLevel(level, fileLoglevel), propagate |-> propagate_after_setup(lg),
        handlers |-> withFile]

\* mutant: the assignment of line 141 binds the module's _formatter
module_formatter_after_setup_assigned(global_formatter, fmt) == fmt

\* setup_logger has no `global` statement: `_formatter = ...` on line 141 binds
\* a local name and the module's _formatter keeps its value
module_formatter_after_setup(global_formatter, fmt) == global_formatter

\* -------------------------------------------- the default logger's functions
\* setup_default_logger: setup_logger(name=LOGZERO_DEFAULT_LOGGER, logfile=logfile,
\*   level=level, formatter=formatter, backupCount=backupCount, log_stream=log_stream)
\* maxBytes is a parameter of setup_default_logger that the call does not hand on
setup_default_logger(lg, logfile, level, formatter, maxBytes, backupCount, log_stream) ==
    setup_logger(lg, logfile, level, formatter, DefaultMaxBytes, backupCount, NoLevel,
                 log_stream, FALSE, FALSE)

\* mutant: the handlers attached to the logger are not removed first
reset_default_logger_keeps(lg) ==
    setup_logger(lg, NoFile, DEBUG, NoFormatter,
                 DefaultMaxBytes, DefaultBackupCount, NoLevel, "stderr", FALSE, FALSE)

\* reset_default_logger: every handler removed, then
\*   setup_logger(name=LOGZERO_DEFAULT_LOGGER, logfile=None, level=DEBUG, formatter=None)
reset_default_logger(lg) ==
    setup_logger([lg EXCEPT !.handlers = <<>>], NoFile, DEBUG, NoFormatter,
                 DefaultMaxBytes, DefaultBackupCount, NoLevel, "stderr", FALSE, FALSE)

\* mutant: the custom-loglevel marker is not looked at
loglevel_updates_custom_level(handler, update_custom_handlers) ==
    IsInternal(handler) \/ update_custom_handlers

\* mutant: update_custom_handlers is not looked at
loglevel_updates_internal_only(handler, update_custom_handlers) ==
    /\ IsInternal(handler)
    /\ ~ IsCustomLoglevel(handler)

\* mutant: every handler is updated, internal or not
loglevel_updates_all(handler, update_custom_handlers) ==
    ~ IsCustomLoglevel(handler)

\* loglevel: does the loop call handler.setLevel(level) on this handler
loglevel_updates(handler, update_custom_handlers) ==
    /\ IsInternal(handler) \/ update_custom_handlers
    /\ ~ IsCustomLoglevel(handler)

\* loglevel: the loop over list(logger.handlers)
loglevel_handlers(hs, level, update_custom_handlers) ==
    [i \in 1..Len(hs) |->
        IF loglevel_updates(hs[i], update_custom_handlers)
        THEN [hs[i] EXCEPT !.level = level]
        ELSE hs[i]]

\* mutant: every handler is updated, internal or not
formatter_updates_all(handler, update_custom_handlers) == TRUE

\* formatter: does the loop call handler.setFormatter(formatter) on this handler
formatter_updates(handler, update_custom_handlers) ==
    IsInternal(handler) \/ update_custom_handlers

\* formatter: the loop over list(logger.handlers)
formatter_handlers(hs, fmt, update_custom_handlers) ==
    [i \in 1..Len(hs) |->
        IF formatter_updates(hs[i], update_custom_handlers)
        THEN [hs[i] EXCEPT !.fmt = fmt]
        ELSE hs[i]]

\* mutant: enable is not looked at
json_formatter_always(enable, json_ensure_ascii) == get_json_formatter(json_ensure_ascii)

\* json: the formatter handed to formatter(..)
json_formatter(enable, json_ensure_ascii) ==
    IF enable THEN get_json_formatter(json_ensure_ascii) ELSE "LogFormatter"

\* mutant: an internal syslog handler is left attached
removes_internal_but_syslog(handler, disable_stream_loggers) ==
    /\ IsInternal(handler)
    /\ \/ IsRotatingFileHandler(handler)
       \/ IsStreamHandler(handler) /\ disable_stream_loggers

\* mutant: the internal marker is not looked at
removes_any(handler, disable_stream_loggers) ==
    \/ IsFileHandler(handler)
    \/ IsSysLogHandler(handler)
    \/ IsStreamHandler(handler) /\ disable_stream_loggers

\* mutant: an internal file handler is left attached
removes_internal_but_file(handler, disable_stream_loggers) ==
    /\ IsInternal(handler)
    /\ \/ IsSysLogHandler(handler)
       \/ IsStreamHandler(handler) /\ ~ IsFileHandler(handler) /\ disable_stream_loggers

\* mutant: disable_stream_loggers is not looked at, stream handlers always go
removes_internal_streams_too(handler, disable_stream_loggers) ==
    /\ IsInternal(handler)
    /\ \/ IsRotatingFileHandler(handler)
       \/ IsSysLogHandler(handler)
       \/ IsStreamHandler(handler)

\* mutant: a syslog handler goes only when the stream handlers go
removes_internal_syslog_with_streams(handler, disable_stream_loggers) ==
    /\ IsInternal(handler)
    /\ \/ IsRotatingFileHandler(handler)
       \/ (IsSysLogHandler(handler) \/ IsStreamHandler(handler)) /\ disable_stream_loggers

\* __remove_internal_loggers: is this handler removed
removes_internal(handler, disable_stream_loggers) ==
    /\ IsInternal(handler)
    /\ \/ IsRotatingFileHandler(handler)
       \/ IsSysLogHandler(handler)
       \/ IsStreamHandler(handler) /\ disable_stream_loggers

\* __remove_internal_loggers: the handlers left attached
RECURSIVE remove_internal_loggers(_, _)
remove_internal_loggers(hs, disable_stream_loggers) ==
    IF hs = <<>> THEN <<>>
    ELSE IF removes_internal(Head(hs), disable_stream_loggers)
         THEN remove_internal_loggers(Tail(hs), disable_stream_loggers)
         ELSE <<Head(hs)>> \o remove_internal_loggers(Tail(hs), disable_stream_loggers)

\* logfile: rotating_filehandler.setLevel(loglevel or _loglevel)
logfile_level(loglevel, global_loglevel) ==
    IF loglevel # NoLevel THEN loglevel ELSE global_loglevel

\* mutant: the formatter remembered in _formatter is not looked at
logfile_formatter_forgets(formatter, global_formatter) ==
    IF formatter # NoFormatter THEN formatter ELSE "LogFormatterNoColor"

\* logfile: formatter or _formatter or LogFormatter(color=False)
logfile_formatter(formatter, global_formatter) ==
    IF formatter # NoFormatter THEN formatter
    ELSE IF global_formatter # NoFormatter THEN global_formatter
    ELSE "LogFormatterNoColor"

\* mutant: the logger is given the file's level whenever one is passed
logfile_logger_level_always(loglevel, logger_level) ==
    IF loglevel # NoLevel THEN loglevel ELSE logger_level

\* logfile: if loglevel and loglevel < logger.level: logger.setLevel(loglevel)
logfile_logger_level(loglevel, logger_level) ==
    IF loglevel # NoLevel /\ loglevel < logger_level THEN loglevel ELSE logger_level

\* def logfile(filename, ..., disable_stream_loggers=False)
logfile_disable_stream_loggers_default == FALSE

\* logfile(filename, formatter, ..., loglevel, disable_stream_loggers) on the default logger
logfile(lg, filename, formatter, maxBytes, backupCount, loglevel, disable_stream_loggers, global_loglevel, global_formatter) ==
    LET removed == remove_internal_loggers(lg.handlers, disable_stream_loggers)
        rotating_filehandler ==
            NewFileHandler(filename, logfile_level(loglevel, global_loglevel),
                           logfile_formatter(formatter, global_formatter),
                           loglevel # NoLevel, maxBytes, backupCount)
    IN IF filename = NoFile
       THEN [lg EXCEPT !.handlers = removed]
       ELSE [lg EXCEPT !.handlers = Append(removed, rotating_filehandler),
                       !.level = logfile_logger_level(loglevel, lg.level)]

\* syslog(logger_to_update, facility, disable_stream_loggers)
syslog(lg, disable_stream_loggers) ==
    [lg EXCEPT !.handlers =
        Append(remove_internal_loggers(lg.handlers, disable_stream_loggers), NewSysLogHandler)]

\* the formatters built as LogFormatter(syslog_levels=True)
SyslogFormatters == {"LogFormatterSyslog"}

ERROR == 40
CRITICAL == 50

\* _convert_to_syslog_severity_level: the value it leaves in record.levelno
\* (none of the five ifs matches a number an earlier one has written)
convert_to_syslog_severity_level(levelno) ==
    CASE levelno = DEBUG -> 7
      [] levelno = INFO -> 6
      [] levelno = WARNING -> 4
      [] levelno = ERROR -> 3
      [] levelno = CRITICAL -> 2
      [] OTHER -> levelno

\* LogFormatter.format, `record = self._convert_to_syslog_severity_level(record)`:
\* the conversion assigns to the record it is given, so record.levelno after
\* format is the converted number when the formatter has syslog_levels
format_levelno(fmt, levelno) ==
    IF fmt \in SyslogFormatters THEN convert_to_syslog_severity_level(levelno)
    ELSE levelno

\* Logger.callHandlers: `for hdlr in handlers: if record.levelno >= hdlr.level:
\* hdlr.handle(record)`; every handler is handed the same record object, and
\* handling it formats it.  The result is the handlers that emit, in turn.
RECURSIVE handled(_, _)
handled(hs, levelno) ==
    IF hs = <<>> THEN <<>>
    ELSE IF levelno >= Head(hs).level
         THEN <<Head(hs)>> \o handled(Tail(hs), format_levelno(Head(hs).fmt, levelno))
         ELSE handled(Tail(hs), levelno)

\* the set of handlers that emit
callHandlers(hs, levelno) == Range(handled(hs, levelno))

\* ------------------------------------------------------- emitting a record
\* Logger.isEnabledFor of a logger whose level is set
isEnabledFor(lg, severity) == severity >= lg.level

\* logging.lastResort: the handler on stderr, at WARNING, that logging uses
\* when callHandlers finds no handler at all
lastResort ==
    [kind |-> "StreamHandler", internal |-> FALSE, custom |-> FALSE,
     level |-> WARNING, fmt |-> NoFormatter, target |-> "stderr", id |-> 0,
     maxBytes |-> 0, backupCount |-> 0]

\* the handlers that handle, in turn, a record logged on a logger that does
\* not propagate: its own handlers, or lastResort when it has none
handling_own(lg, severity) ==
    IF ~ isEnabledFor(lg, severity) THEN <<>>
    ELSE IF lg.handlers = <<>> THEN handled(<<lastResort>>, severity)
    ELSE handled(lg.handlers, severity)

\* Handler.handle is reached from Logger.callHandlers when record.levelno >= hdlr.level
\* the handlers that emit a record of the given severity logged on lg
emitting(lg, severity) == Range(handling_own(lg, severity))

\* no record was logged by the last call
NoRecord == [name |-> "", severity |-> 0, emitted |-> 0, to |-> {}, id |-> 0, size |-> 0]

\* ------------------------------------------------- the log file on disk
\* fs.active is the content of the log file, fs.backups[i] the content of the
\* file with suffix ".i"; a content is the sequence of the records written,
\* each with the number of the call that logged it and its length
NoFiles == [active |-> <<>>, backups |-> <<>>]

\* stream.tell() at the end of the file: the sum of the lengths written
RECURSIVE FileSize(_)
FileSize(content) ==
    IF content = <<>> THEN 0 ELSE Head(content).size + FileSize(Tail(content))

\* RotatingFileHandler.shouldRollover:
\*   maxBytes > 0 and stream.tell() + len(msg) >= maxBytes
shouldRollover(handler, files, size) ==
    /\ handler.maxBytes > 0
    /\ FileSize(files.active) + size >= handler.maxBytes

\* RotatingFileHandler.doRollover with backupCount > 0: ".i" is renamed to
\* ".i+1" for i = backupCount-1 .. 1 where ".i" exists, replacing what was
\* there, and the log file is renamed to ".1"; files beyond ".backupCount" are
\* not touched.  The stream is then reopened on a new, empty log file.
rotated_backups(files, backupCount) ==
    LET n == Len(files.backups)
        m == IF n + 1 > backupCount THEN (IF n > backupCount THEN n ELSE backupCount)
             ELSE n + 1
    IN [i \in 1..m |->
           IF i = 1 THEN files.active
           ELSE IF i <= backupCount THEN files.backups[i - 1]
           ELSE files.backups[i]]

\* RotatingFileHandler.doRollover: with backupCount = 0 the stream is closed and
\* reopened for appending, which leaves the file as it is
doRollover(handler, files) ==
    IF handler.backupCount > 0
    THEN [active |-> <<>>, backups |-> rotated_backups(files, handler.backupCount)]
    ELSE files

\* RotatingFileHandler.emit: roll over if due, then write the record
emit(handler, files, entry) ==
    LET rolled == IF shouldRollover(handler, files, entry.size)
                  THEN doRollover(handler, files) ELSE files
    IN [rolled EXCEPT !.active = Append(@, entry)]

\* the log file after the given handlers have handled an entry, one after the
\* other: every internal file handler among them writes it
RECURSIVE written_by(_, _, _)
written_by(hs, files, entry) ==
    IF hs = <<>> THEN files
    ELSE written_by(Tail(hs),
                    IF IsInternal(Head(hs)) /\ IsRotatingFileHandler(Head(hs))
                    THEN emit(Head(hs), files, entry) ELSE files,
                    entry)

\* the log file after the handlers hs a record went through have handled it
written(files, hs, record) ==
    written_by(hs, files, [id |-> record.id, size |-> record.size])

\* ---------------------------------------------------- LogFormatter.format
\* Python values are records: a str is [type |-> "str", text |-> tokens], a
\* call that may raise answers [raised, error, value].
Str(text) == [type |-> "str", text |-> text]

Returns(value) == [raised |-> FALSE, error |-> "", value |-> value]

Raises(error) == [raised |-> TRUE, error |-> error, value |-> Str(<<>>)]

\* record.msg: a str with or without one %s placeholder, a byte string that
\* is or is not valid UTF-8, None, or another object, whose __str__ and
\* __repr__ may raise
Payloads ==
    {[type |-> "str", placeholders |-> p, utf8 |-> TRUE,
      str_raises |-> FALSE, repr_raises |-> FALSE] : p \in 0..1}
        \cup {[type |-> "bytes", placeholders |-> 0, utf8 |-> u,
               str_raises |-> FALSE, repr_raises |-> FALSE] : u \in BOOLEAN}
        \cup {[type |-> "None", placeholders |-> 0, utf8 |-> TRUE,
               str_raises |-> FALSE, repr_raises |-> FALSE]}
        \cup {[type |-> "object", placeholders |-> 0, utf8 |-> TRUE,
               str_raises |-> s, repr_raises |-> r] : s, r \in BOOLEAN}

\* record.args: no arguments, or a tuple of one or two strings
MaxArgs == 2

\* str(record.msg): the text itself, the repr of a byte string ("b'...'"),
\* "None", or what __str__ of the object returns or raises
str_of(msg) ==
    CASE msg.type = "str" ->
            Returns(Str(IF msg.placeholders = 1 THEN <<"msg", "%s">> ELSE <<"msg">>))
      [] msg.type = "bytes" -> Returns(Str(<<"repr(msg)">>))
      [] msg.type = "None" -> Returns(Str(<<"None">>))
      [] OTHER -> IF msg.str_raises THEN Raises("ValueError")
                  ELSE Returns(Str(<<"str(msg)">>))

\* text % args for a tuple of strings: TypeError unless there is one
\* placeholder per argument
percent(text, nargs) ==
    IF Cardinality({i \in DOMAIN text : text[i] = "%s"}) # nargs THEN Raises("TypeError")
    ELSE Returns(Str([i \in DOMAIN text |-> IF text[i] = "%s" THEN "arg" ELSE text[i]]))

\* logging.LogRecord.getMessage: msg = str(self.msg); if self.args: msg = msg % self.args
getMessage(msg, nargs) ==
    LET s == str_of(msg)
    IN IF s.raised \/ nargs = 0 THEN s ELSE percent(s.value.text, nargs)

\* to_unicode: a str or None is returned unchanged, a byte string is decoded
\* as UTF-8, anything else raises TypeError
to_unicode(value) ==
    IF value.type \in {"str", "None"} THEN Returns(value)
    ELSE IF value.type # "bytes" THEN Raises("TypeError")
    ELSE IF value.utf8 THEN Returns(Str(<<"decoded(msg)">>))
    ELSE Raises("UnicodeDecodeError")

\* _safe_unicode: to_unicode, with repr(s) for a byte string that cannot be decoded
safe_unicode(value) ==
    LET u == to_unicode(value)
    IN IF u.raised /\ u.error = "UnicodeDecodeError" THEN Returns(Str(<<"repr(msg)">>))
       ELSE u

\* "Bad message (%r): %r" % (e, record.__dict__): the repr of the record's
\* dictionary holds the repr of record.msg, and raises when that does
bad_message(error, msg) ==
    IF msg.repr_raises THEN Raises("ValueError")
    ELSE Returns(Str(<<"Bad message", error, "repr(record.__dict__)">>))

\* the try block of format and its except clause: record.message
record_message(msg, nargs) ==
    LET message == getMessage(msg, nargs)
        safe == IF message.raised THEN message ELSE safe_unicode(message.value)
    IN IF safe.raised THEN bad_message(safe.error, msg) ELSE safe

\* the UTC offsets of the local time zone, in minutes
UtcOffsets == {-300, 0, 330, 540}

\* two decimal digits
TwoDigits(n) ==
    CASE n = 0 -> "00" [] n = 5 -> "05" [] n = 9 -> "09" [] n = 30 -> "30" [] OTHER -> "nn"

\* datetime.isoformat(" ", timespec="milliseconds") of an aware datetime:
\* YYYY-MM-DD HH:MM:SS.mmm followed by the sign of the UTC offset and HH:MM
isoformat(utcoffset) ==
    LET minutes == IF utcoffset < 0 THEN - utcoffset ELSE utcoffset
    IN <<"YYYY", "-", "MM", "-", "DD", " ", "HH", ":", "MM", ":", "SS", ".", "mmm",
         IF utcoffset < 0 THEN "-" ELSE "+",
         TwoDigits(minutes \div 60), ":", TwoDigits(minutes % 60)>>

\* str.replace(old, new) on a text, character by character
RECURSIVE str_replace(_, _, _)
str_replace(s, old, new) ==
    IF s = <<>> THEN <<>>
    ELSE (IF Head(s) = old THEN new ELSE <<Head(s)>>) \o str_replace(Tail(s), old, new)

\* the datefmt arguments of LogFormatter: the default strftime format, "iso", "azure"
DateFormats == {"default", "iso", "azure"}

\* LogFormatter.formatTime
formatTime(datefmt, utcoffset) ==
    IF datefmt \in {"iso", "azure"}
    THEN (IF datefmt = "azure" THEN str_replace(isoformat(utcoffset), "+", <<" ", "+">>)
          ELSE isoformat(utcoffset))
    ELSE <<"strftime">>

\* LogFormatter.format for a record without exception information: what the
\* call raises, or the string it returns, as the timestamp and the message
\* that go into the format
format(msg, nargs, datefmt, utcoffset) ==
    LET message == record_message(msg, nargs)
    IN IF message.raised
       THEN [raised |-> TRUE, error |-> message.error, asctime |-> <<>>, message |-> <<>>]
       ELSE [raised |-> FALSE, error |-> "", asctime |-> formatTime(datefmt, utcoffset),
             message |-> message.value.text]

\* format has not been called
NoOutput == [raised |-> FALSE, error |-> "", asctime |-> <<>>, message |-> <<>>]

\* ------------------------------------------------------------------ state
\* a logger logging.getLogger creates: level NOTSET, propagate True, no handlers
NewLogger == [level |-> 0, propagate |-> TRUE, handlers |-> <<>>]

\* the root logger as logging creates it: level WARNING, no handlers
RootLogger == [level |-> WARNING, propagate |-> TRUE, handlers |-> <<>>]

\* the arguments the calls are drawn from
LogfileArgs == {NoFile, "f.log"}

\* lengths of a formatted record, below and above RotateBytes
ShortRecord == 1
LongRecord == 3

\* the maxBytes of a rotating log file
RotateBytes == 2

FormatterArgs == {NoFormatter, "user"}

\* logger_to_update of syslog(): a logger, or the default of the parameter,
\* which is the value of the global `logger` when `def syslog` ran: None
NoLogger == "None"

\* the handlers that emit the warning of setup_logger, in the order they are
\* called; emitted, in a record, is the number of these calls
warning_handlers(lg, level, fileLoglevel, log_stream) ==
    LET configured == [lg EXCEPT !.level = minLevel(level, fileLoglevel)]
    IN IF valid_log_stream(log_stream) THEN <<>>
       ELSE handling_own(configured, WARNING)

\* the warning setup_logger logs through _logger when log_stream is not valid;
\* at that point the new level is set and the handlers are the old ones
setup_logger_warning(name, lg, level, fileLoglevel, log_stream, id) ==
    IF valid_log_stream(log_stream) THEN NoRecord
    ELSE LET configured == [lg EXCEPT !.level = minLevel(level, fileLoglevel)]
         IN [name |-> name, severity |-> WARNING,
             emitted |-> Len(warning_handlers(lg, level, fileLoglevel, log_stream)),
             to |-> emitting(configured, WARNING),
             id |-> id, size |-> LongRecord]

\* the threads of the program that call setup_logger on their own, numbered
\* in the order in which they make their call
Threads == 1..MaxThreads

\* a thread that has not called setup_logger yet.  pc is the statement the
\* thread is at, call the arguments of its call, entered the logger as the
\* call found it, todo the handlers its loop has still to visit, std its
\* local std_stream_handler, and overlapped whether another call was running
\* on the logger at some time between the first and the last step of the call
IdleThread ==
    [pc |-> "idle", call |-> [logfile |-> NoFile, level |-> NoLevel, log_stream |-> NoStream],
     entered |-> NewLogger, todo |-> <<>>, std |-> NoHandler, overlapped |-> FALSE]

\* the module has been imported, reset_default_logger() has run once, and
\* the program has the threads ts that will each call setup_logger
ImportedBy(calls, ts) ==
    /\ loggers = [n \in LoggerNames |->
                    IF n = LOGZERO_DEFAULT_LOGGER THEN reset_default_logger(NewLogger)
                    ELSE IF n = ROOT THEN RootLogger
                    ELSE NewLogger]
    /\ _loglevel = DEBUG
    /\ _formatter = NoFormatter
    /\ fs = NoFiles
    /\ last = [call |-> [op |-> "import", name |-> LOGZERO_DEFAULT_LOGGER],
               at |-> 0, again |-> FALSE]
    /\ rec = NoRecord
    /\ out = NoOutput
    /\ threads = [t \in ts |-> IdleThread]
    /\ nops = 0
    /\ limit = calls

\* the module has been imported by a program that makes its calls one after
\* the other
Imported(calls) == ImportedBy(calls, {})

Init == Imported(MaxOps)

\* the call just made, its position in the run, and whether the call before it
\* was the same call with the same arguments
Remember(call) ==
    last' = [call |-> call, at |-> nops + 1, again |-> (last.call = call)]

\* what a handler is to logzero: "stream", "file" or "syslog" for a handler
\* flagged internal, "application" for one that is not
Role(h) ==
    IF ~ IsInternal(h) THEN "application"
    ELSE IF IsRotatingFileHandler(h) THEN "file"
    ELSE IF IsSysLogHandler(h) THEN "syslog"
    ELSE "stream"

\* the roles of the handlers attached to a logger
Roles(lg) == {Role(h) : h \in Range(lg.handlers)}

\* the formatters of the internal handlers of a logger
InternalFormatters(lg) == {h.fmt : h \in {x \in Range(lg.handlers) : IsInternal(x)}}

SetupLogger(name, lf, level, fmt, maxBytes, backupCount, fileLoglevel, log_stream, isRootLogger, js, ascii) ==
    /\ nops < limit
    /\ loggers' = [loggers EXCEPT ![getLogger(name, isRootLogger)] =
                      setup_logger(@, lf, level, fmt, maxBytes, backupCount, fileLoglevel,
                                   log_stream, js, ascii)]
    /\ rec' = setup_logger_warning(getLogger(name, isRootLogger),
                                   loggers[getLogger(name, isRootLogger)], level,
                                   fileLoglevel, log_stream, nops + 1)
    /\ fs' = written(fs, warning_handlers(loggers[getLogger(name, isRootLogger)], level,
                                          fileLoglevel, log_stream), rec')
    /\ Remember([op |-> "setup_logger", name |-> name, logfile |-> lf, level |-> level,
                formatter |-> fmt, maxBytes |-> maxBytes, backupCount |-> backupCount,
                fileLoglevel |-> fileLoglevel, log_stream |-> log_stream,
                isRootLogger |-> isRootLogger, json |-> js, json_ensure_ascii |-> ascii])
    /\ _formatter' = module_formatter_after_setup(_formatter, resolve_formatter(fmt, js, ascii))
    /\ nops' = nops + 1
    /\ UNCHANGED <<_loglevel, out, threads, limit>>

SetupDefaultLogger(lf, level, fmt, maxBytes, backupCount, log_stream) ==
    /\ nops < limit
    /\ loggers' = [loggers EXCEPT ![LOGZERO_DEFAULT_LOGGER] =
                      setup_default_logger(@, lf, level, fmt, maxBytes, backupCount,
                                           log_stream)]
    /\ rec' = setup_logger_warning(LOGZERO_DEFAULT_LOGGER, loggers[LOGZERO_DEFAULT_LOGGER],
                                   level, NoLevel, log_stream, nops + 1)
    /\ fs' = written(fs, warning_handlers(loggers[LOGZERO_DEFAULT_LOGGER], level, NoLevel,
                                          log_stream), rec')
    /\ Remember([op |-> "setup_default_logger", name |-> LOGZERO_DEFAULT_LOGGER,
                logfile |-> lf, level |-> level, formatter |-> fmt,
                maxBytes |-> maxBytes, backupCount |-> backupCount,
                log_stream |-> log_stream,
                found |-> Roles(loggers[LOGZERO_DEFAULT_LOGGER])])
    /\ _formatter' = module_formatter_after_setup(_formatter,
                                                  resolve_formatter(fmt, FALSE, FALSE))
    /\ nops' = nops + 1
    /\ UNCHANGED <<_loglevel, out, threads, limit>>

ResetDefaultLogger ==
    /\ nops < limit
    /\ loggers' = [loggers EXCEPT ![LOGZERO_DEFAULT_LOGGER] = reset_default_logger(@)]
    /\ _loglevel' = DEBUG
    /\ _formatter' = NoFormatter
    /\ rec' = NoRecord
    /\ Remember([op |-> "reset_default_logger", name |-> LOGZERO_DEFAULT_LOGGER,
                found |-> Roles(loggers[LOGZERO_DEFAULT_LOGGER])])
    /\ nops' = nops + 1
    /\ UNCHANGED <<fs, out, threads, limit>>

Loglevel(level, update_custom_handlers) ==
    /\ nops < limit
    /\ loggers' = [loggers EXCEPT ![LOGZERO_DEFAULT_LOGGER] =
                      [@ EXCEPT !.level = level,
                                !.handlers = loglevel_handlers(@, level, update_custom_handlers)]]
    /\ _loglevel' = level
    /\ rec' = NoRecord
    /\ Remember([op |-> "loglevel", name |-> LOGZERO_DEFAULT_LOGGER, level |-> level,
                update_custom_handlers |-> update_custom_handlers])
    /\ nops' = nops + 1
    /\ UNCHANGED <<_formatter, fs, out, threads, limit>>

Formatter(fmt, update_custom_handlers) ==
    /\ nops < limit
    /\ loggers' = [loggers EXCEPT ![LOGZERO_DEFAULT_LOGGER] =
                      [@ EXCEPT !.handlers = formatter_handlers(@, fmt, update_custom_handlers)]]
    /\ _formatter' = fmt
    /\ rec' = NoRecord
    /\ Remember([op |-> "formatter", name |-> LOGZERO_DEFAULT_LOGGER, formatter |-> fmt,
                update_custom_handlers |-> update_custom_handlers])
    /\ nops' = nops + 1
    /\ UNCHANGED <<_loglevel, fs, out, threads, limit>>

Json(enable, ascii, update_custom_handlers) ==
    /\ nops < limit
    /\ loggers' = [loggers EXCEPT ![LOGZERO_DEFAULT_LOGGER] =
                      [@ EXCEPT !.handlers =
                          formatter_handlers(@, json_formatter(enable, ascii),
                                             update_custom_handlers)]]
    /\ _formatter' = json_formatter(enable, ascii)
    /\ rec' = NoRecord
    /\ Remember([op |-> "json", name |-> LOGZERO_DEFAULT_LOGGER, enable |-> enable,
                json_ensure_ascii |-> ascii,
                update_custom_handlers |-> update_custom_handlers,
                found |-> InternalFormatters(loggers[LOGZERO_DEFAULT_LOGGER])])
    /\ nops' = nops + 1
    /\ UNCHANGED <<_loglevel, fs, out, threads, limit>>

\* logfile(filename, ...): `given` tells whether the call passes
\* disable_stream_loggers; when it does not, the parameter has its default
Logfile(filename, fmt, maxBytes, backupCount, level, given, disable_stream_loggers) ==
    /\ nops < limit
    /\ given \/ disable_stream_loggers = logfile_disable_stream_loggers_default
    /\ loggers' = [loggers EXCEPT ![LOGZERO_DEFAULT_LOGGER] =
                      logfile(@, filename, fmt, maxBytes, backupCount, level,
                              disable_stream_loggers, _loglevel, _formatter)]
    /\ rec' = NoRecord
    /\ Remember([op |-> "logfile", name |-> LOGZERO_DEFAULT_LOGGER, filename |-> filename,
                formatter |-> fmt, maxBytes |-> maxBytes, backupCount |-> backupCount,
                loglevel |-> level, given |-> given,
                disable_stream_loggers |-> disable_stream_loggers,
                found |-> Roles(loggers[LOGZERO_DEFAULT_LOGGER])])
    /\ nops' = nops + 1
    /\ UNCHANGED <<_loglevel, _formatter, fs, out, threads, limit>>

\* syslog(logger_to_update): with no logger given logger_to_update is None and
\* __remove_internal_loggers raises AttributeError before anything changes.
\* The record of the call says what was attached to the logger when it was made.
Syslog(logger_to_update, disable_stream_loggers) ==
    /\ nops < limit
    /\ loggers' = IF logger_to_update = NoLogger THEN loggers
                  ELSE [loggers EXCEPT ![logger_to_update] = syslog(@, disable_stream_loggers)]
    /\ rec' = NoRecord
    /\ Remember([op |-> "syslog", name |-> logger_to_update,
                disable_stream_loggers |-> disable_stream_loggers,
                raised |-> (logger_to_update = NoLogger),
                returned |-> (IF logger_to_update = NoLogger THEN NoHandler
                              ELSE NewSysLogHandler),
                found |-> (IF logger_to_update = NoLogger THEN {}
                           ELSE Roles(loggers[logger_to_update]))])
    /\ nops' = nops + 1
    /\ UNCHANGED <<_loglevel, _formatter, fs, out, threads, limit>>

\* the handlers of a logger that do not carry the internal marker
custom_handlers(lg) == {h \in Range(lg.handlers) : ~ IsInternal(h)}

\* formatter.format(record), for a LogFormatter with the given datefmt and a
\* record made in a time zone with the given UTC offset
Format(msg, nargs, datefmt, utcoffset) ==
    /\ nops < limit
    /\ out' = format(msg, nargs, datefmt, utcoffset)
    /\ rec' = NoRecord
    /\ Remember([op |-> "format", name |-> "", msg |-> msg, nargs |-> nargs,
                datefmt |-> datefmt, utcoffset |-> utcoffset])
    /\ nops' = nops + 1
    /\ UNCHANGED <<loggers, _loglevel, _formatter, fs, threads, limit>>

\* the application attaches a handler of its own: logger.addHandler(filehandler)
AddHandler(name, level, fmt) ==
    /\ nops < limit
    /\ Cardinality(custom_handlers(loggers[name])) < MaxCustom
    /\ loggers' = [loggers EXCEPT ![name].handlers =
                      Append(@, NewApplicationHandler(level, fmt,
                                   Cardinality(custom_handlers(loggers[name])) + 1))]
    /\ rec' = NoRecord
    /\ Remember([op |-> "addHandler", name |-> name, level |-> level, formatter |-> fmt])
    /\ nops' = nops + 1
    /\ UNCHANGED <<_loglevel, _formatter, fs, out, threads, limit>>

\* the parent of a logger in logging's hierarchy: the names here have no dots,
\* so that every logger but the root hangs under the root
parent(name) == IF name = ROOT THEN NoLogger ELSE ROOT

\* Logger.getEffectiveLevel: the first level that is set, from the logger upwards
RECURSIVE getEffectiveLevel(_, _)
getEffectiveLevel(ls, name) ==
    IF name = NoLogger THEN NoLevel
    ELSE IF ls[name].level # NoLevel THEN ls[name].level
    ELSE getEffectiveLevel(ls, parent(name))

\* the handlers Logger.callHandlers goes through: those of the logger and,
\* as long as propagate is set, those of its ancestors
RECURSIVE handlers_in_reach(_, _)
handlers_in_reach(ls, name) ==
    IF name = NoLogger THEN <<>>
    ELSE ls[name].handlers \o
            (IF ls[name].propagate THEN handlers_in_reach(ls, parent(name)) ELSE <<>>)

\* the handlers that handle a record logged on the named logger, in turn
handling(ls, name, severity) ==
    IF severity < getEffectiveLevel(ls, name) THEN <<>>
    ELSE IF handlers_in_reach(ls, name) = <<>> THEN handled(<<lastResort>>, severity)
    ELSE handled(handlers_in_reach(ls, name), severity)

\* the logger was returned by setup_logger, which clears its propagate flag
Configured(name) == ~ loggers[name].propagate

\* logger.debug / info / warning
Log(name, severity, size) ==
    /\ nops < limit
    /\ rec' = [name |-> name, severity |-> severity,
               emitted |-> Len(handling(loggers, name, severity)),
               to |-> Range(handling(loggers, name, severity)),
               id |-> nops + 1, size |-> size]
    /\ fs' = written(fs, handling(loggers, name, severity), rec')
    /\ nops' = nops + 1
    /\ UNCHANGED <<loggers, _loglevel, _formatter, last, out, threads, limit>>

\* logfile and fileLoglevel arguments of setup_logger: a file level goes with a logfile
FileArgs == {<<NoFile, NoLevel>>} \cup ({"f.log"} \X OptLevels)

\* log_stream arguments of setup_logger
StreamArgs == {"stderr", "stdout", NoStream}

\* def json(enable=True, json_ensure_ascii=False, ..): the value of the flag in
\* a call that omits it
json_ensure_ascii_default == FALSE

\* enable and json_ensure_ascii arguments of json(..)
JsonArgs == {<<FALSE, json_ensure_ascii_default>>} \cup ({TRUE} \X BOOLEAN)

\* filename, formatter and loglevel arguments of logfile(..)
LogfileCallArgs ==
    {<<NoFile, NoFormatter, NoLevel>>, <<"f.log", "user", NoLevel>>}
        \cup ({"f.log"} \X {NoFormatter} \X OptLevels)

\* logfile and log_stream arguments of setup_default_logger
DefaultLoggerArgs ==
    {<<NoFile, "stderr">>, <<"f.log", "stderr">>, <<NoFile, NoStream>>, <<"f.log", "bogus">>}

Next ==
    \/ \E fl \in FileArgs, level \in Levels, log_stream \in StreamArgs :
          SetupLogger(LOGZERO_DEFAULT_LOGGER, fl[1], level, NoFormatter,
                      DefaultMaxBytes, DefaultBackupCount, fl[2], log_stream, FALSE, FALSE, FALSE)
    \/ \E lf \in LogfileArgs, ascii \in BOOLEAN :
          SetupLogger(LOGZERO_DEFAULT_LOGGER, lf, DEBUG, NoFormatter,
                      DefaultMaxBytes, DefaultBackupCount, NoLevel, "stderr", FALSE, TRUE, ascii)
    \/ \E lf \in LogfileArgs, level \in Levels, fmt \in FormatterArgs :
          SetupLogger(MODULE_NAME, lf, level, fmt, DefaultMaxBytes, DefaultBackupCount,
                      NoLevel, "stdout", FALSE, FALSE, FALSE)
    \/ \E a \in DefaultLoggerArgs, level \in Levels :
          SetupDefaultLogger(a[1], level, NoFormatter, DefaultMaxBytes, DefaultBackupCount,
                             a[2])
    \/ ResetDefaultLogger
    \/ \E level \in Levels, u \in BOOLEAN : Loglevel(level, u)
    \/ \E fmt \in FormatterArgs, u \in BOOLEAN : Formatter(fmt, u)
    \/ \E ea \in JsonArgs, u \in BOOLEAN : Json(ea[1], ea[2], u)
    \/ \E a \in LogfileCallArgs, d \in BOOLEAN : Logfile(a[1], a[2], DefaultMaxBytes, DefaultBackupCount, a[3], TRUE, d)
    \/ \E lg \in Names \cup {NoLogger}, d \in BOOLEAN : Syslog(lg, d)
    \/ \E name \in Names, level \in Levels : AddHandler(name, level, "LogFormatterNoColor")
    \/ \E name \in Names, severity \in Levels :
          Configured(name) /\ Log(name, severity, ShortRecord)

Spec == Init /\ [][Next]_vars

\* ------------------------------------- the default logger and its log file
\* filename, maxBytes and backupCount arguments of logfile(..)
RotatingLogfileArgs ==
    {<<NoFile, DefaultMaxBytes, DefaultBackupCount>>}
        \cup ({"f.log"} \X {DefaultMaxBytes} \X {DefaultBackupCount})
        \cup ({"f.log"} \X {RotateBytes} \X {0, 1, 2})

\* disable_stream_loggers of logfile(..): passed as True, or not passed
DisableArgs == {<<TRUE, TRUE>>, <<FALSE, logfile_disable_stream_loggers_default>>}

\* maxBytes and backupCount arguments of setup_logger and setup_default_logger
RotationArgs == {<<DefaultMaxBytes, DefaultBackupCount>>, <<RotateBytes, 1>>}

\* the module has been imported; the calls are counted up to MaxFileOps
InitFile == Imported(MaxFileOps)

\* the calls of a program that configures the log file of the default logger
\* and logs short and long records on it
NextFile ==
    \/ \E a \in RotatingLogfileArgs, d \in DisableArgs :
          Logfile(a[1], NoFormatter, a[2], a[3], NoLevel, d[1], d[2])
    \/ \E r \in RotationArgs :
          SetupDefaultLogger("f.log", DEBUG, NoFormatter, r[1], r[2], "stderr")
    \/ \E r \in RotationArgs :
          SetupLogger(LOGZERO_DEFAULT_LOGGER, "f.log", DEBUG, NoFormatter, r[1], r[2],
                      NoLevel, "stderr", FALSE, FALSE, FALSE)
    \/ ResetDefaultLogger
    \/ \E size \in {ShortRecord, LongRecord} : Log(LOGZERO_DEFAULT_LOGGER, INFO, size)

SpecFile == InitFile /\ [][NextFile]_vars

\* ------------------------------------------------------ reading the state
\* positions of the internal handlers of a logger, by class
InternalStreams(lg) ==
    {i \in DOMAIN lg.handlers :
        IsInternal(lg.handlers[i]) /\ lg.handlers[i].kind = "StreamHandler"}

InternalFiles(lg) ==
    {i \in DOMAIN lg.handlers :
        IsInternal(lg.handlers[i]) /\ IsFileHandler(lg.handlers[i])}

InternalSyslogs(lg) ==
    {i \in DOMAIN lg.handlers :
        IsInternal(lg.handlers[i]) /\ IsSysLogHandler(lg.handlers[i])}

\* the state is the one the named call returned into
JustCalled(op) == last.call.op = op /\ last.at = nops

\* this step is the named call
Calls(op) == last'.call.op = op /\ last'.at = nops + 1 /\ nops' = nops + 1

\* a record was logged on the logger of the last call, right after that call
LoggedAfter(op) ==
    /\ last.call.op = op
    /\ last.at + 1 = nops
    /\ rec.name = last.call.name
    /\ rec.severity \in Levels

DefaultLogger == loggers[LOGZERO_DEFAULT_LOGGER]

\* ------------------------------------------------------------------ claims

\* C1: calling setup_logger a second time in a row on the same logger name with
\* the same options changes nothing on that logger (same handlers, same levels
\* and formatters, in the same order), and the logger then has exactly one
\* internal stream handler when log_stream is not None (none otherwise) and
\* exactly one internal file handler when logfile is set (none otherwise).
C1_IdempotentReconfigure ==
    [][(Calls("setup_logger") /\ last'.again) =>
        LET n == last'.call.name IN
        /\ loggers'[n] = loggers[n]
        /\ Cardinality(InternalStreams(loggers'[n])) =
              (IF last'.call.log_stream = NoStream THEN 0 ELSE 1)
        /\ Cardinality(InternalFiles(loggers'[n])) =
              (IF last'.call.logfile = NoFile THEN 0 ELSE 1)]_vars

\* the same setup_logger call, with a stream and a logfile, was just made twice
C1_Witness ==
    /\ JustCalled("setup_logger")
    /\ last.again
    /\ last.call.logfile # NoFile
    /\ last.call.log_stream # NoStream
    /\ Cardinality(InternalStreams(loggers[last.call.name])) = 1
    /\ Cardinality(InternalFiles(loggers[last.call.name])) = 1

\* C2: whatever calls were made, every logger has at most one internal stream
\* handler, at most one internal file handler and at most one internal syslog
\* handler.
C2_OwnershipInvariant ==
    \A n \in Names :
        /\ Cardinality(InternalStreams(loggers[n])) <= 1
        /\ Cardinality(InternalFiles(loggers[n])) <= 1
        /\ Cardinality(InternalSyslogs(loggers[n])) <= 1

\* a logger that holds one internal handler of each class after several calls
C2_Witness ==
    /\ nops >= 2
    /\ \E n \in Names :
        /\ Cardinality(InternalStreams(loggers[n])) = 1
        /\ Cardinality(InternalFiles(loggers[n])) = 1
        /\ Cardinality(InternalSyslogs(loggers[n])) = 1

\* the ids of the handlers the application attached to a logger
custom_ids(lg) == {h.id : h \in custom_handlers(lg)}

\* no handler called before the i-th rewrites the severity of the record
\* (a formatter with syslog_levels does, see format_levelno)
SeverityReaches(hs, i) == \A k \in 1..(i - 1) : hs[k].fmt \notin SyslogFormatters

\* this step is a call of setup_logger or setup_default_logger on logger n
Reconfigures(n) ==
    \/ Calls("setup_logger") /\ getLogger(last'.call.name, last'.call.isRootLogger) = n
    \/ Calls("setup_default_logger") /\ n = LOGZERO_DEFAULT_LOGGER

\* this step is logger.log on some logger: a record is logged and no
\* function of the module is called
Logs == rec'.id = nops + 1 /\ nops' = nops + 1 /\ last' = last

\* C3 as stated: across every call other than reset_default_logger a handler
\* the application attached stays attached and still receives records: a
\* record that its level accepted before the call, and that the logger lets
\* through after the call, is handled by it after the call
C3_CustomHandlerStillReceives ==
    [][~ Calls("reset_default_logger") =>
          \A n \in Names : \A i \in DOMAIN loggers[n].handlers :
              ~ IsInternal(loggers[n].handlers[i]) =>
                  \E j \in DOMAIN loggers'[n].handlers :
                      /\ loggers'[n].handlers[j].id = loggers[n].handlers[i].id
                      /\ ~ IsInternal(loggers'[n].handlers[j])
                      /\ \A s \in Levels :
                            (/\ s >= loggers[n].handlers[i].level
                             /\ s >= getEffectiveLevel(loggers', n)
                             /\ SeverityReaches(loggers'[n].handlers, j)) =>
                                loggers'[n].handlers[j] \in Range(handling(loggers', n, s))]_vars

\* C3 amended: a handler the application attached stays attached to its logger
\* across every call other than reset_default_logger (setup_logger,
\* setup_default_logger, loglevel, formatter, json, logfile, syslog, with any
\* arguments), and reset_default_logger detaches those of the default logger.
\* Its level is set to the level of the call by setup_logger and
\* setup_default_logger on its logger and by loglevel with
\* update_custom_handlers, and is left alone by every other call.  A record
\* logged on its logger is handled by it exactly when the severity passes the
\* level of the logger and the level the handler has then.
C3_CustomHandlerKept ==
    [][/\ ~ Calls("reset_default_logger") =>
            \A n \in Names : \A i \in DOMAIN loggers[n].handlers :
                ~ IsInternal(loggers[n].handlers[i]) =>
                    \E j \in DOMAIN loggers'[n].handlers :
                        /\ loggers'[n].handlers[j].id = loggers[n].handlers[i].id
                        /\ ~ IsInternal(loggers'[n].handlers[j])
                        /\ loggers'[n].handlers[j].level =
                              IF Reconfigures(n) THEN last'.call.level
                              ELSE IF /\ Calls("loglevel")
                                      /\ n = LOGZERO_DEFAULT_LOGGER
                                      /\ last'.call.update_custom_handlers
                                   THEN last'.call.level
                              ELSE loggers[n].handlers[i].level
       /\ Calls("reset_default_logger") =>
            custom_ids(loggers'[LOGZERO_DEFAULT_LOGGER]) = {}
       /\ Logs =>
            \A i \in DOMAIN loggers[rec'.name].handlers :
                (/\ ~ IsInternal(loggers[rec'.name].handlers[i])
                 /\ SeverityReaches(loggers[rec'.name].handlers, i)) =>
                    (loggers[rec'.name].handlers[i] \in rec'.to <=>
                        /\ rec'.severity >= getEffectiveLevel(loggers, rec'.name)
                        /\ rec'.severity >= loggers[rec'.name].handlers[i].level)]_vars

\* C3 witness: after a call that removed the internal stream handlers around
\* it (setup_logger with log_stream=None, logfile with disable_stream_loggers,
\* or syslog) a record was logged on the default logger, and the handler the
\* application attached there handled it
C3_Witness ==
    /\ \/ LoggedAfter("setup_logger") /\ last.call.log_stream = NoStream
       \/ LoggedAfter("logfile") /\ last.call.disable_stream_loggers
       \/ LoggedAfter("syslog")
    /\ rec.name = LOGZERO_DEFAULT_LOGGER
    /\ InternalStreams(DefaultLogger) = {}
    /\ \E h \in rec.to : ~ IsInternal(h) /\ h.id \in custom_ids(DefaultLogger)

\* the level a file handler filters at after setup_logger(level=L, fileLoglevel=F)
C4_FileLevel(call) ==
    IF call.fileLoglevel = NoLevel THEN call.level ELSE call.fileLoglevel

C4_Min(a, b) == IF a < b THEN a ELSE b

\* C4: right after setup_logger(level=L, logfile=f, fileLoglevel=F) the logger's
\* threshold is min(L, F) (L when F is not given), and a record of severity s
\* logged then reaches the internal stream handler iff s >= L and the internal
\* file handler iff s >= F (s >= L when F is not given).
C4_SeverityFilterAfterConfigure ==
    /\ (JustCalled("setup_logger") /\ last.call.logfile # NoFile) =>
          loggers[last.call.name].level = C4_Min(last.call.level, C4_FileLevel(last.call))
    /\ (LoggedAfter("setup_logger") /\ last.call.logfile # NoFile) =>
          LET lg == loggers[last.call.name] IN
          /\ \A i \in InternalStreams(lg) :
                (lg.handlers[i] \in rec.to) <=> (rec.severity >= last.call.level)
          /\ \A i \in InternalFiles(lg) :
                (lg.handlers[i] \in rec.to) <=> (rec.severity >= C4_FileLevel(last.call))

\* a record between a lower file level and the stream level was logged right
\* after setup_logger: the file handler emitted it, the stream handler did not
C4_Witness ==
    /\ LoggedAfter("setup_logger")
    /\ last.call.logfile # NoFile
    /\ last.call.fileLoglevel # NoLevel
    /\ last.call.fileLoglevel <= rec.severity
    /\ rec.severity < last.call.level
    /\ \E h \in rec.to : IsInternal(h) /\ IsFileHandler(h)
    /\ \E i \in InternalStreams(loggers[last.call.name]) :
          loggers[last.call.name].handlers[i] \notin rec.to

\* C5 (as claimed): after setup_logger with log_stream 'stderr' or 'stdout' the
\* logger has a single internal stream handler and it writes to the requested
\* stream, also when the internal stream handler it had wrote to the other one.
C5_StreamSwitching ==
    (JustCalled("setup_logger") /\ last.call.log_stream \in {"stderr", "stdout"}) =>
        LET lg == loggers[last.call.name] IN
        /\ Cardinality(InternalStreams(lg)) = 1
        /\ \A i \in InternalStreams(lg) : lg.handlers[i].target = last.call.log_stream

\* the handlers of the default logger carrying the custom-loglevel marker
CustomLevelHandlers(lg) ==
    {i \in DOMAIN lg.handlers : IsCustomLoglevel(lg.handlers[i])}

\* C6: logfile(f, loglevel=F) creates a file handler of level F flagged as
\* custom-level, and every loglevel(L, update_custom_handlers=U) call, for any L
\* and for U False and True, leaves the level of a handler so flagged as it was.
C6_CustomLevelNeverOverwritten ==
    [][/\ (Calls("logfile") /\ last'.call.filename # NoFile
                            /\ last'.call.loglevel # NoLevel) =>
            \A i \in InternalFiles(loggers'[LOGZERO_DEFAULT_LOGGER]) :
                /\ IsCustomLoglevel(loggers'[LOGZERO_DEFAULT_LOGGER].handlers[i])
                /\ loggers'[LOGZERO_DEFAULT_LOGGER].handlers[i].level = last'.call.loglevel
       /\ Calls("loglevel") =>
            /\ Len(loggers'[LOGZERO_DEFAULT_LOGGER].handlers) = Len(DefaultLogger.handlers)
            /\ \A i \in CustomLevelHandlers(DefaultLogger) :
                loggers'[LOGZERO_DEFAULT_LOGGER].handlers[i].level
                    = DefaultLogger.handlers[i].level]_vars

\* loglevel(L) was just called on a default logger whose custom-level file
\* handler has a level below L, and the internal stream handler now has level L
C6_Witness ==
    /\ JustCalled("loglevel")
    /\ \E i \in InternalStreams(DefaultLogger) :
          DefaultLogger.handlers[i].level = last.call.level
    /\ \E i \in InternalFiles(DefaultLogger) :
          /\ IsCustomLoglevel(DefaultLogger.handlers[i])
          /\ DefaultLogger.handlers[i].level < last.call.level

\* C7 (as claimed): loglevel(L, update_custom_handlers=True) sets the level of a
\* custom-level file handler to L; with update_custom_handlers=False it keeps it.
C7_UpdateCustomOverwrites ==
    [][Calls("loglevel") =>
        \A i \in CustomLevelHandlers(DefaultLogger) :
            loggers'[LOGZERO_DEFAULT_LOGGER].handlers[i].level =
                (IF last'.call.update_custom_handlers
                 THEN last'.call.level
                 ELSE DefaultLogger.handlers[i].level)]_vars

\* C7 (amended): loglevel(L, update_custom_handlers=True) sets the level of the
\* handlers that are not internal to L and leaves a custom-level file handler
\* at the level F it was created with, as update_custom_handlers=False does.
C7_UpdateCustomKeepsCustomLevel ==
    [][(Calls("loglevel") /\ last'.call.update_custom_handlers) =>
        \A i \in DOMAIN DefaultLogger.handlers :
            LET before == DefaultLogger.handlers[i]
                after == loggers'[LOGZERO_DEFAULT_LOGGER].handlers[i]
            IN /\ IsCustomLoglevel(before) => after.level = before.level
               /\ ~ IsInternal(before) => after.level = last'.call.level]_vars

\* loglevel(L, update_custom_handlers=True) was just called with a custom-level
\* file handler of another level and an application handler attached
C7_Witness ==
    /\ JustCalled("loglevel")
    /\ last.call.update_custom_handlers
    /\ custom_ids(DefaultLogger) # {}
    /\ \E i \in InternalFiles(DefaultLogger) :
          /\ IsCustomLoglevel(DefaultLogger.handlers[i])
          /\ DefaultLogger.handlers[i].level # last.call.level

\* C8 (as claimed): a record logged on the default logger with a severity at or
\* above the level of its custom-level file handler is emitted by that handler,
\* whether loglevel(G) was called before or after logfile(f, loglevel=F).
C8_CustomThresholdHonoured ==
    (rec.name = LOGZERO_DEFAULT_LOGGER /\ rec.severity \in Levels) =>
        \A i \in InternalFiles(DefaultLogger) :
            (/\ IsCustomLoglevel(DefaultLogger.handlers[i])
             /\ rec.severity >= DefaultLogger.handlers[i].level)
            => DefaultLogger.handlers[i] \in rec.to

\* the fields of a handler other than its level
SameButLevel(a, b) == [a EXCEPT !.level = 0] = [b EXCEPT !.level = 0]

\* the fields of a handler other than its formatter
SameButFormatter(a, b) == [a EXCEPT !.fmt = NoFormatter] = [b EXCEPT !.fmt = NoFormatter]

\* C9: loglevel(L, update_custom_handlers=U) sets the default logger's threshold
\* to L and the level of every internal handler not flagged custom-level to L;
\* a handler that is not internal keeps its level when U is False and gets L
\* when U is True; no handler is added or removed and nothing else of a handler
\* changes; afterwards no internal handler without the custom-level flag emits
\* a record of severity below L.
C9_LoglevelEffect ==
    [][Calls("loglevel") =>
        LET before == DefaultLogger
            after == loggers'[LOGZERO_DEFAULT_LOGGER]
            L == last'.call.level
            U == last'.call.update_custom_handlers
        IN /\ after.level = L
           /\ Len(after.handlers) = Len(before.handlers)
           /\ \A i \in DOMAIN before.handlers :
                /\ SameButLevel(after.handlers[i], before.handlers[i])
                /\ (IsInternal(before.handlers[i]) /\ ~ IsCustomLoglevel(before.handlers[i]))
                      => after.handlers[i].level = L
                /\ ~ IsInternal(before.handlers[i]) =>
                      after.handlers[i].level = (IF U THEN L ELSE before.handlers[i].level)
           /\ \A sev \in Levels : sev < L =>
                \A h \in emitting(after, sev) : ~ IsInternal(h) \/ IsCustomLoglevel(h)]_vars

\* loglevel(L) was just called without update_custom_handlers on a default
\* logger with internal handlers and an application handler of another level
C9_Witness ==
    /\ JustCalled("loglevel")
    /\ ~ last.call.update_custom_handlers
    /\ last.call.level > DEBUG
    /\ InternalStreams(DefaultLogger) # {}
    /\ InternalFiles(DefaultLogger) # {}
    /\ \E h \in custom_handlers(DefaultLogger) : h.level # last.call.level

\* C10: formatter(F, update_custom_handlers=U) gives every internal handler of
\* the default logger the formatter F, and a handler that is not internal too
\* when U is True (it keeps its own when U is False); the logger threshold, the
\* handlers' levels and custom-level flags and the attached handlers stay.
C10_FormatterEffect ==
    [][Calls("formatter") =>
        LET before == DefaultLogger
            after == loggers'[LOGZERO_DEFAULT_LOGGER]
            F == last'.call.formatter
            U == last'.call.update_custom_handlers
        IN /\ after.level = before.level
           /\ after.propagate = before.propagate
           /\ Len(after.handlers) = Len(before.handlers)
           /\ \A i \in DOMAIN before.handlers :
                /\ SameButFormatter(after.handlers[i], before.handlers[i])
                /\ IsInternal(before.handlers[i]) => after.handlers[i].fmt = F
                /\ ~ IsInternal(before.handlers[i]) =>
                      after.handlers[i].fmt = (IF U THEN F ELSE before.handlers[i].fmt)]_vars

\* formatter(F) was just called without update_custom_handlers: the internal
\* handlers carry F, the application handler another formatter
C10_Witness ==
    /\ JustCalled("formatter")
    /\ ~ last.call.update_custom_handlers
    /\ last.call.formatter = "user"
    /\ \E i \in InternalFiles(DefaultLogger) : DefaultLogger.handlers[i].fmt = "user"
    /\ \E h \in custom_handlers(DefaultLogger) : h.fmt # "user"

\* the formatters that render a record as a text line
TextFormatters == {"LogFormatter", "LogFormatterNoColor"}

\* the formatters that render a record as a JSON object
JsonFormatters == {"JsonFormatter", "JsonFormatterAscii"}

\* C11 as stated: after json(True) on the default logger (the formatter it set
\* is still the one remembered), the file handler that logfile(filename) with
\* no formatter argument creates has the text formatter.
C11_JsonNotPersistent ==
    (/\ JustCalled("logfile")
     /\ _formatter \in JsonFormatters
     /\ last.call.filename # NoFile
     /\ last.call.formatter = NoFormatter) =>
        \A i \in InternalFiles(DefaultLogger) :
            DefaultLogger.handlers[i].fmt \in TextFormatters

\* C11: json(True, json_ensure_ascii=A) is remembered: when it is the latest
\* configuration call, logfile(filename) with no formatter argument creates the
\* file handler with the JSON formatter of that call (A decides which), while
\* setup_logger without json=True and without a formatter gives every handler
\* of the default logger the default text formatter.
C11_LogfileUsesRememberedFormatter ==
    [][(/\ last.call.op = "json"
        /\ last.call.enable) =>
         LET after == loggers'[LOGZERO_DEFAULT_LOGGER] IN
         /\ (/\ Calls("logfile")
             /\ last'.call.filename # NoFile
             /\ last'.call.formatter = NoFormatter) =>
                /\ _formatter \in JsonFormatters
                /\ Cardinality(InternalFiles(after)) = 1
                /\ \A i \in InternalFiles(after) :
                      after.handlers[i].fmt =
                          (IF last.call.json_ensure_ascii
                           THEN "JsonFormatterAscii" ELSE "JsonFormatter")
         /\ (/\ Calls("setup_logger")
             /\ last'.call.name = LOGZERO_DEFAULT_LOGGER
             /\ ~ last'.call.json
             /\ last'.call.formatter = NoFormatter) =>
                \A i \in DOMAIN after.handlers : after.handlers[i].fmt = "LogFormatter"]_vars

\* logfile(filename) was just called with no formatter argument while the
\* formatter of json(True) is the one remembered: the new file handler renders
\* JSON
C11_Witness ==
    /\ JustCalled("logfile")
    /\ _formatter \in JsonFormatters
    /\ last.call.filename # NoFile
    /\ last.call.formatter = NoFormatter
    /\ \E i \in InternalFiles(DefaultLogger) :
          DefaultLogger.handlers[i].fmt \in JsonFormatters

\* C12: a json(..) call on the default logger, with enable True or False, adds
\* or removes no handler and changes no level (logger threshold, handler levels,
\* remembered level): only formatters change; and json(False), in particular
\* after json(True), leaves every internal handler with the default text
\* formatter LogFormatter().
C12_JsonRoundTrip ==
    [][Calls("json") =>
        LET before == DefaultLogger
            after == loggers'[LOGZERO_DEFAULT_LOGGER]
        IN /\ after.level = before.level
           /\ _loglevel' = _loglevel
           /\ Len(after.handlers) = Len(before.handlers)
           /\ \A i \in DOMAIN before.handlers :
                 SameButFormatter(after.handlers[i], before.handlers[i])
           /\ ~ last'.call.enable =>
                 /\ _formatter' = "LogFormatter"
                 /\ \A i \in DOMAIN after.handlers :
                       IsInternal(after.handlers[i]) =>
                           after.handlers[i].fmt = "LogFormatter"]_vars

\* json(False) was just called on a default logger whose internal stream
\* handler and internal file handler all rendered JSON: both render text
C12_Witness ==
    /\ JustCalled("json")
    /\ ~ last.call.enable
    /\ last.call.found # {}
    /\ last.call.found \subseteq JsonFormatters
    /\ InternalStreams(DefaultLogger) # {}
    /\ InternalFiles(DefaultLogger) # {}
    /\ \A i \in InternalStreams(DefaultLogger) \cup InternalFiles(DefaultLogger) :
          DefaultLogger.handlers[i].fmt = "LogFormatter"

\* what a message looks like with every character outside ASCII escaped
Escaped(message) ==
    [i \in DOMAIN message |-> [code |-> message[i], escaped |-> message[i] = Eszett]]

\* what a message looks like with every character written raw
Raw(message) == [i \in DOMAIN message |-> [code |-> message[i], escaped |-> FALSE]]

\* C13: after json(True, json_ensure_ascii=A) every internal handler of the
\* default logger, and after setup_logger(json=True, json_ensure_ascii=A) every
\* handler of that logger, carries a JSON formatter that renders a message with
\* its non-ASCII characters escaped when A is True and raw when A is False,
\* which is the default of the flag; whatever an earlier json(..) call chose.
C13_JsonEscaping ==
    [][/\ (Calls("json") /\ last'.call.enable) =>
            LET after == loggers'[LOGZERO_DEFAULT_LOGGER] IN
            \A i \in DOMAIN after.handlers : \A m \in Messages :
                IsInternal(after.handlers[i]) =>
                    /\ after.handlers[i].fmt \in JsonFormatters
                    /\ JsonFormatter_format(after.handlers[i].fmt, m) =
                          (IF last'.call.json_ensure_ascii THEN Escaped(m) ELSE Raw(m))
       /\ (Calls("setup_logger") /\ last'.call.json) =>
            LET after == loggers'[last'.call.name] IN
            \A i \in DOMAIN after.handlers : \A m \in Messages :
                /\ after.handlers[i].fmt \in JsonFormatters
                /\ JsonFormatter_format(after.handlers[i].fmt, m) =
                      (IF last'.call.json_ensure_ascii THEN Escaped(m) ELSE Raw(m))
       /\ ~ json_ensure_ascii_default]_vars

\* json(True, json_ensure_ascii=True) was just called on a default logger whose
\* internal handlers had the JSON formatter of json_ensure_ascii=False: the
\* internal stream handler escapes "ß"
C13_Witness ==
    /\ JustCalled("json")
    /\ last.call.enable
    /\ last.call.json_ensure_ascii
    /\ last.call.found = {"JsonFormatter"}
    /\ \E i \in InternalStreams(DefaultLogger) :
          JsonFormatter_format(DefaultLogger.handlers[i].fmt, <<Eszett>>) =
              <<[code |-> Eszett, escaped |-> TRUE]>>

\* C14: reset_default_logger() leaves the default logger with threshold DEBUG
\* and exactly one handler, an internal stream handler on stderr with level
\* DEBUG and the default text formatter, whatever was attached before; the
\* remembered level and formatter are DEBUG and none; the other loggers are not
\* touched; and logfile(f) with no formatter and no loglevel, as the next
\* configuration call, creates a file handler of level DEBUG with a text
\* formatter.
C14_ResetToInitial ==
    [][/\ Calls("reset_default_logger") =>
            LET after == loggers'[LOGZERO_DEFAULT_LOGGER] IN
            /\ after.level = DEBUG
            /\ Len(after.handlers) = 1
            /\ after.handlers[1].kind = "StreamHandler"
            /\ IsInternal(after.handlers[1])
            /\ ~ IsCustomLoglevel(after.handlers[1])
            /\ after.handlers[1].target = "stderr"
            /\ after.handlers[1].level = DEBUG
            /\ after.handlers[1].fmt = "LogFormatter"
            /\ _loglevel' = DEBUG
            /\ _formatter' = NoFormatter
            /\ loggers'[MODULE_NAME] = loggers[MODULE_NAME]
       /\ (/\ Calls("logfile")
           /\ last.call.op = "reset_default_logger"
           /\ last'.call.filename # NoFile
           /\ last'.call.formatter = NoFormatter
           /\ last'.call.loglevel = NoLevel) =>
            LET after == loggers'[LOGZERO_DEFAULT_LOGGER] IN
            /\ Cardinality(InternalFiles(after)) = 1
            /\ \A i \in InternalFiles(after) :
                  /\ after.handlers[i].level = DEBUG
                  /\ after.handlers[i].fmt \in TextFormatters
                  /\ ~ IsCustomLoglevel(after.handlers[i])]_vars

\* reset_default_logger() was just called on a default logger that had an
\* internal file handler and a handler of the application attached: they are
\* detached and one internal stream handler is left
C14_Witness ==
    /\ JustCalled("reset_default_logger")
    /\ {"file", "application"} \subseteq last.call.found
    /\ custom_handlers(DefaultLogger) = {}
    /\ InternalFiles(DefaultLogger) = {}
    /\ Cardinality(InternalStreams(DefaultLogger)) = 1
    /\ Len(DefaultLogger.handlers) = 1

\* the numbers of the calls whose records a file content holds
Ids(content) == {content[i].id : i \in DOMAIN content}

\* the numbers of the calls whose records are in the log file or a backup
IdsOnDisk == Ids(fs.active) \cup UNION {Ids(fs.backups[i]) : i \in DOMAIN fs.backups}

\* C15: logfile(filename) leaves the default logger with exactly one internal
\* file handler, a new one for filename attached last, and logfile(None) with
\* none; the handlers that are not internal file handlers stay, but for syslog
\* and (when disable_stream_loggers) stream handlers.  The log file changes only
\* in a step that logs a record while an internal file handler is attached, and
\* such a record, when that handler lets it pass, is in the file afterwards; a
\* record logged with no file handler attached is never on disk.
C15_LogfileReplaces ==
    [][/\ Calls("logfile") =>
            LET before == DefaultLogger
                after == loggers'[LOGZERO_DEFAULT_LOGGER]
                n == Len(after.handlers)
            IN IF last'.call.filename = NoFile
               THEN InternalFiles(after) = {}
               ELSE /\ InternalFiles(after) = {n}
                    /\ after.handlers[n].target = last'.call.filename
                    /\ IsRotatingFileHandler(after.handlers[n])
                    /\ \A i \in 1..(n - 1) : after.handlers[i] \in Range(before.handlers)
       /\ InternalFiles(DefaultLogger) = {} => fs' = fs
       /\ (rec' # NoRecord /\ nops' = nops + 1) =>
            \A i \in InternalFiles(DefaultLogger) :
                rec'.severity >= DefaultLogger.handlers[i].level /\ rec'.severity >= DefaultLogger.level
                    => rec'.id \in Ids(fs'.active)
       /\ (rec' # NoRecord /\ InternalFiles(DefaultLogger) = {}) =>
            rec'.id \notin Ids(fs'.active)]_vars

\* a record was logged after logfile(None), which followed a logfile(f) under
\* which a record was written: the file holds the earlier record only
C15_Witness ==
    /\ last.call.op = "logfile"
    /\ last.call.filename = NoFile
    /\ rec # NoRecord
    /\ rec.id = nops
    /\ fs.active # <<>>
    /\ rec.id \notin IdsOnDisk
    /\ InternalFiles(DefaultLogger) = {}

\* C16 as stated: logfile(filename) called without disable_stream_loggers
\* removes the internal stream handler of the default logger, so a record logged
\* afterwards goes to the file and to no stream handler.
C16_LogfileDisablesStreamsByDefault ==
    /\ (/\ JustCalled("logfile")
        /\ ~ last.call.given
        /\ last.call.filename # NoFile) => InternalStreams(DefaultLogger) = {}
    /\ (/\ LoggedAfter("logfile")
        /\ ~ last.call.given
        /\ last.call.filename # NoFile) => \A h \in rec.to : IsFileHandler(h)

\* C19 as stated: setup_default_logger(logfile=f, maxBytes=M, backupCount=B)
\* leaves the default logger with a file handler of rollover size M and backup
\* count B, the handler setup_logger creates from the same arguments.
C19_DefaultLoggerRotation ==
    (JustCalled("setup_default_logger") /\ last.call.logfile # NoFile) =>
        /\ InternalFiles(DefaultLogger) # {}
        /\ \A i \in InternalFiles(DefaultLogger) :
              /\ DefaultLogger.handlers[i].maxBytes = last.call.maxBytes
              /\ DefaultLogger.handlers[i].backupCount = last.call.backupCount
              /\ DefaultLogger.handlers[i] =
                    NewFileHandler(last.call.logfile, last.call.level, "LogFormatter", FALSE,
                                   last.call.maxBytes, last.call.backupCount)

\* the handlers of a logger at the given positions
HandlersAt(lg, positions) == {lg.handlers[i] : i \in positions}

\* C17: syslog(L, facility, disable_stream_loggers=D) on a logger L leaves L
\* with no internal file handler and with exactly one internal syslog handler,
\* a new one attached last, which is the value returned; L's internal stream
\* handlers are all removed when D is True and all kept when D is False; the
\* handlers that are not internal stay attached; no other logger changes.
C17_SyslogEffect ==
    [][(Calls("syslog") /\ last'.call.name # NoLogger) =>
        LET L == last'.call.name
            before == loggers[L]
            after == loggers'[L]
            n == Len(after.handlers)
        IN /\ InternalFiles(after) = {}
           /\ InternalSyslogs(after) = {n}
           /\ after.handlers[n] = last'.call.returned
           /\ IsSysLogHandler(last'.call.returned) /\ IsInternal(last'.call.returned)
           /\ IF last'.call.disable_stream_loggers
              THEN InternalStreams(after) = {}
              ELSE /\ HandlersAt(after, InternalStreams(after)) =
                          HandlersAt(before, InternalStreams(before))
                   /\ Cardinality(InternalStreams(after)) =
                          Cardinality(InternalStreams(before))
           /\ custom_handlers(after) = custom_handlers(before)
           /\ n = 1 + Cardinality(custom_handlers(before))
                    + Cardinality(InternalStreams(after))
           /\ \A other \in Names \ {L} : loggers'[other] = loggers[other]
           /\ ~ last'.call.raised]_vars

\* syslog(logger, disable_stream_loggers=False) was just called on a default
\* logger that had a stream handler, a syslog handler and a handler of the
\* application: one syslog handler is attached, next to the stream handler and
\* the application's handler
C17_Witness ==
    /\ JustCalled("syslog")
    /\ last.call.name = LOGZERO_DEFAULT_LOGGER
    /\ ~ last.call.disable_stream_loggers
    /\ {"stream", "syslog", "application"} \subseteq last.call.found
    /\ Cardinality(InternalSyslogs(DefaultLogger)) = 1
    /\ InternalStreams(DefaultLogger) # {}
    /\ custom_handlers(DefaultLogger) # {}

\* C18 as stated: syslog() called with no arguments (the module is imported, so
\* reset_default_logger() has run) completes without error and leaves the
\* default logger with no internal stream handler and with an internal syslog
\* handler.
C18_SyslogNoArguments ==
    (/\ JustCalled("syslog")
     /\ last.call.name = NoLogger
     /\ last.call.disable_stream_loggers) =>
        /\ ~ last.call.raised
        /\ InternalStreams(DefaultLogger) = {}
        /\ Cardinality(InternalSyslogs(DefaultLogger)) = 1

\* the latest configuration call gave the default logger a log file with
\* maxBytes > 0 and backupCount > 0
Rotating(call) ==
    \/ /\ call.op = "logfile"
       /\ call.filename # NoFile
       /\ call.maxBytes > 0 /\ call.backupCount > 0
    \/ /\ call.op = "setup_logger"
       /\ call.name = LOGZERO_DEFAULT_LOGGER
       /\ call.logfile # NoFile
       /\ call.maxBytes > 0 /\ call.backupCount > 0

\* C20: on a default logger whose log file was configured with maxBytes = N > 0
\* and backupCount = K > 0, a record whose write would take the log file beyond
\* N is written to a new, empty log file after a rotation: the old content of
\* the log file (when it has any) is backup .1, backup .i is what backup .(i-1)
\* was for i up to K, what was backup .K is gone, and the backups do not grow
\* beyond K; a record that leaves the file below N is appended without
\* rotation.  So after a record longer than N the log file holds that record
\* only, and when the record before it was longer than N too, backup .1 holds
\* that one.
C20_Rotation ==
    [][(Rotating(last.call) /\ last' = last /\ rec' # NoRecord) =>
        LET N == last.call.maxBytes
            K == last.call.backupCount
            entry == [id |-> rec'.id, size |-> rec'.size]
        IN /\ FileSize(fs.active) + rec'.size > N =>
                /\ fs'.active = <<entry>>
                /\ fs.active # <<>> => fs'.backups[1] = fs.active
                /\ \A i \in 1..(K - 1) :
                      i <= Len(fs.backups) => fs'.backups[i + 1] = fs.backups[i]
                /\ Len(fs.backups) <= K => Len(fs'.backups) <= K
           /\ FileSize(fs.active) + rec'.size < N =>
                /\ fs'.active = Append(fs.active, entry)
                /\ fs'.backups = fs.backups
           /\ rec'.size > N => fs'.active = <<entry>>
           /\ (/\ rec'.size > N
               /\ Len(fs.active) = 1
               /\ fs.active[1].size > N) => fs'.backups[1] = fs.active]_vars

\* three records longer than maxBytes were logged after
\* logfile(f, maxBytes=N, backupCount=2): the log file holds the third, backup
\* .1 the second and backup .2 the first
C20_Witness ==
    /\ last.call.op = "logfile"
    /\ Rotating(last.call)
    /\ last.call.backupCount = 2
    /\ rec.size > last.call.maxBytes
    /\ fs.active = <<[id |-> rec.id, size |-> rec.size]>>
    /\ Len(fs.backups) = 2
    /\ fs.backups[1] = <<[id |-> rec.id - 1, size |-> LongRecord]>>
    /\ fs.backups[2] = <<[id |-> rec.id - 2, size |-> LongRecord]>>

\* ------------------------------------------------------- loggers by name
\* number of calls explored when loggers are configured under several names
MaxNameOps == 3

\* name and isRootLogger arguments of setup_logger: the empty name, the default
\* of the parameter, the default logger's name, and the flag with either name
NameArgs ==
    {<<"", FALSE>>, <<setup_logger_name_default, FALSE>>, <<LOGZERO_DEFAULT_LOGGER, FALSE>>,
     <<setup_logger_name_default, TRUE>>, <<LOGZERO_DEFAULT_LOGGER, TRUE>>}

InitNames == Imported(MaxNameOps)

\* the calls of a program that configures loggers under several names, attaches
\* handlers of its own to them and logs
NextNames ==
    \/ \E a \in NameArgs, lf \in LogfileArgs, level \in Levels :
          SetupLogger(a[1], lf, level, NoFormatter, DefaultMaxBytes, DefaultBackupCount,
                      NoLevel, "stderr", a[2], FALSE, FALSE)
    \/ \E name \in LoggerNames, level \in Levels :
          AddHandler(name, level, "LogFormatterNoColor")
    \/ \E name \in LoggerNames, severity \in Levels :
          Configured(name) /\ Log(name, severity, ShortRecord)

SpecNames == InitNames /\ [][NextNames]_vars

\* the logger a setup_logger call is about, as the caller names it
Named(call) ==
    IF call.isRootLogger \/ call.name = "" THEN "root" ELSE call.name

\* C21: setup_logger never creates a second logger: the call changes the one
\* logger its name denotes and no other, the handlers the application attached
\* to that logger are still attached to it, and it carries one internal stream
\* handler however often it was configured; isRootLogger=True and name=''
\* both denote the logger "root", and the default name denotes "logzero",
\* so that the default logger "logzero_default" is left alone
C21_SingletonPerName ==
    [][Calls("setup_logger") =>
          LET call == last'.call
              target == Named(call)
          IN /\ DOMAIN loggers' = DOMAIN loggers
             /\ \A n \in DOMAIN loggers \ {target} : loggers'[n] = loggers[n]
             /\ ~ loggers'[target].propagate
             /\ custom_ids(loggers[target]) \subseteq custom_ids(loggers'[target])
             /\ ~ loggers[target].propagate =>
                    Cardinality(InternalStreams(loggers'[target])) =
                        Cardinality(InternalStreams(loggers[target]))
             /\ (call.name = "logzero" /\ ~ call.isRootLogger) =>
                    /\ target # LOGZERO_DEFAULT_LOGGER
                    /\ loggers'["logzero_default"] = loggers["logzero_default"]]_vars

\* C21 witness: the root logger, configured before and carrying a handler of the
\* application, has just been configured again through isRootLogger=True: it
\* still has that handler and a single internal stream handler
C21_Witness ==
    /\ JustCalled("setup_logger")
    /\ last.call.isRootLogger
    /\ last.call.name = setup_logger_name_default
    /\ custom_ids(loggers[ROOT]) # {}
    /\ Cardinality(InternalStreams(loggers[ROOT])) = 1
    /\ loggers[MODULE_NAME] = NewLogger

\* ------------------------------------------- reconfiguring the default logger
\* number of calls explored when the default logger is configured again and again
MaxReconcileOps == 3

\* logfile, formatter, log_stream and json arguments of setup_logger
ReconcileArgs ==
    {<<NoFile, NoFormatter, "stderr", FALSE>>,
     <<"f.log", NoFormatter, "stderr", FALSE>>,
     <<NoFile, NoFormatter, "stdout", FALSE>>,
     <<NoFile, NoFormatter, "bogus", FALSE>>,
     <<"f.log", "user", "bogus", FALSE>>,
     <<NoFile, NoFormatter, NoStream, FALSE>>,
     <<"f.log", NoFormatter, NoStream, FALSE>>,
     <<"f.log", "LogFormatterSyslog", "stderr", FALSE>>,
     <<NoFile, NoFormatter, "stderr", TRUE>>}

InitReconcile == Imported(MaxReconcileOps)

\* the calls of a program that configures the default logger through
\* setup_logger and setup_default_logger, attaches a syslog handler and
\* handlers of its own, and logs
NextReconcile ==
    \/ \E a \in ReconcileArgs, level \in Levels :
          SetupLogger(LOGZERO_DEFAULT_LOGGER, a[1], level, a[2], DefaultMaxBytes,
                      DefaultBackupCount, NoLevel, a[3], FALSE, a[4], json_ensure_ascii_default)
    \/ \E lf \in LogfileArgs, level \in Levels :
          SetupDefaultLogger(lf, level, NoFormatter, DefaultMaxBytes, DefaultBackupCount,
                             "stderr")
    \/ ResetDefaultLogger
    \/ \E d \in BOOLEAN : Syslog(LOGZERO_DEFAULT_LOGGER, d)
    \/ \E level \in Levels : AddHandler(LOGZERO_DEFAULT_LOGGER, level, "LogFormatterNoColor")
    \/ \E severity \in Levels : Log(LOGZERO_DEFAULT_LOGGER, severity, ShortRecord)

SpecReconcile == InitReconcile /\ [][NextReconcile]_vars

\* the logger setup_logger returns for the arguments of a recorded call, with
\* another log_stream in place of the one the call was given
WithStream(lg, call, log_stream) ==
    setup_logger(lg, call.logfile, call.level, call.formatter, call.maxBytes,
                 call.backupCount, call.fileLoglevel, log_stream, call.json,
                 call.json_ensure_ascii)

\* C22: setup_logger with a log_stream other than 'stderr', 'stdout' and None
\* completes, logs one record of severity WARNING through the logger it
\* configures (to handlers that were attached to it before the call, or to
\* logging's handler of last resort when it had none), and leaves that logger
\* as the same call with log_stream='stderr' would
C22_InvalidStreamIsStderr ==
    [][(Calls("setup_logger") /\ ~ valid_log_stream(last'.call.log_stream)) =>
          LET L == Named(last'.call)
          IN /\ loggers'[L] = WithStream(loggers[L], last'.call, "stderr")
             /\ \A n \in DOMAIN loggers \ {L} : loggers'[n] = loggers[n]
             /\ rec'.name = L
             /\ rec'.severity = WARNING
             /\ rec'.id = nops'
             /\ rec'.to \subseteq (IF loggers[L].handlers = <<>> THEN {lastResort}
                                   ELSE Range(loggers[L].handlers))]_vars

\* C22 witness: setup_logger(log_stream="bogus") has just returned: the logger
\* has an internal handler on stderr at the level of the call, and the warning
\* was emitted by some handler, none of them that handler as it is now
C22_Witness ==
    /\ JustCalled("setup_logger")
    /\ ~ valid_log_stream(last.call.log_stream)
    /\ rec.id = nops
    /\ rec.severity = WARNING
    /\ rec.to # {}
    /\ \E i \in InternalStreams(DefaultLogger) :
          /\ DefaultLogger.handlers[i].target = "stderr"
          /\ DefaultLogger.handlers[i].level = last.call.level
          /\ DefaultLogger.handlers[i] \notin rec.to

\* the handlers of a logger that are internal stream handlers
internal_stream_handlers(lg) == {lg.handlers[i] : i \in InternalStreams(lg)}

\* C23 as stated: after setup_logger(..., log_stream=None) the logger has no
\* internal stream handler, and a record logged through it next reaches only
\* internal file handlers and handlers that are not internal
C23_OnlyFileAndApplication ==
    /\ (JustCalled("setup_logger") /\ last.call.log_stream = NoStream) =>
          InternalStreams(loggers[Named(last.call)]) = {}
    /\ (LoggedAfter("setup_logger") /\ last.call.log_stream = NoStream) =>
          \A h \in rec.to : IsFileHandler(h) \/ ~ IsInternal(h)

\* C23 amended: after setup_logger(..., log_stream=None) the logger has no
\* internal stream handler, whatever it had before, and a record logged
\* through it next reaches no internal stream handler: it reaches only the
\* internal file handler, an internal syslog handler and handlers that are
\* not internal
C23_NoInternalStream ==
    /\ (JustCalled("setup_logger") /\ last.call.log_stream = NoStream) =>
          InternalStreams(loggers[Named(last.call)]) = {}
    /\ (LoggedAfter("setup_logger") /\ last.call.log_stream = NoStream) =>
          /\ rec.to \cap internal_stream_handlers(loggers[rec.name]) = {}
          /\ \A h \in rec.to : IsInternal(h) => h.target \notin {"stderr", "stdout"}
          /\ \A h \in rec.to : IsFileHandler(h) \/ IsSysLogHandler(h) \/ ~ IsInternal(h)

\* C23 witness: a record was logged right after setup_logger(logfile=f,
\* log_stream=None) and reached the file handler and the syslog handler
C23_Witness ==
    /\ LoggedAfter("setup_logger")
    /\ last.call.log_stream = NoStream
    /\ \E h \in rec.to : IsInternal(h) /\ IsFileHandler(h)
    /\ \E h \in rec.to : IsInternal(h) /\ IsSysLogHandler(h)

\* the formatter a setup_logger call resolves, read off its arguments
ResolvedFormatter(call) ==
    IF call.json
    THEN (IF call.json_ensure_ascii THEN "JsonFormatterAscii" ELSE "JsonFormatter")
    ELSE IF call.formatter # NoFormatter THEN call.formatter
    ELSE "LogFormatter"

\* C27: after setup_logger, every handler of the logger other than the internal
\* file handler (the internal stream handler, the handlers of the application,
\* an internal syslog handler) has the level of the call and the resolved
\* formatter; the application's handlers and the syslog handlers attached
\* before are still attached; an internal file handler is never kept: the
\* logger has one, created by this call and attached last, exactly when the
\* call names a logfile
C27_SurvivorsReconfigured ==
    [][Calls("setup_logger") =>
          LET call == last'.call
              old == loggers[Named(call)]
              new == loggers'[Named(call)]
          IN /\ \A h \in Range(new.handlers) :
                    ~ (IsInternal(h) /\ IsFileHandler(h)) =>
                        h.level = call.level /\ h.fmt = ResolvedFormatter(call)
             /\ custom_ids(new) = custom_ids(old)
             /\ Cardinality(InternalSyslogs(new)) = Cardinality(InternalSyslogs(old))
             /\ InternalFiles(new) =
                    IF call.logfile # NoFile THEN {Len(new.handlers)} ELSE {}
             /\ \A i \in InternalFiles(new) :
                    /\ new.handlers[i].target = call.logfile
                    /\ new.handlers[i].fmt = ResolvedFormatter(call)
                    /\ ~ IsCustomLoglevel(new.handlers[i])]_vars

\* C27 witness: setup_logger has just run on a logger that carries a handler
\* of the application and a syslog handler, next to its stream handler; the
\* application's handler no longer has the formatter it was attached with and
\* the syslog handler no longer has the level it was created with
C27_Witness ==
    /\ JustCalled("setup_logger")
    /\ Roles(DefaultLogger) = {"application", "syslog", "stream"}
    /\ \A h \in custom_handlers(DefaultLogger) :
          h.fmt # "LogFormatterNoColor" /\ h.level = last.call.level
    /\ \A i \in InternalSyslogs(DefaultLogger) :
          DefaultLogger.handlers[i].level # NewSysLogHandler.level

\* this step is setup_default_logger without a logfile, on the default logger
\* carrying the log file of an earlier setup_default_logger(logfile=f) and a
\* handler the application attached
ReconfiguresWithoutLogfile ==
    /\ Calls("setup_default_logger")
    /\ last'.call.logfile = NoFile
    /\ InternalFiles(DefaultLogger) # {}
    /\ custom_handlers(DefaultLogger) # {}

\* C26 as stated: setup_default_logger without a logfile, whatever its level
\* argument, leaves a handler the application attached to the default logger
\* attached, with the level it had
C26_ApplicationLevelKept ==
    [][ReconfiguresWithoutLogfile =>
          \A h \in custom_handlers(DefaultLogger) :
              \E k \in custom_handlers(loggers'[LOGZERO_DEFAULT_LOGGER]) :
                  k.id = h.id /\ k.level = h.level]_vars

\* C26 amended: setup_default_logger without a logfile leaves a handler the
\* application attached to the default logger attached, and gives it the level
\* argument of the call and the default text formatter: its level is the one
\* it had only when that is the level of the call.  The internal file handler
\* is removed.
C26_ApplicationLevelSet ==
    [][ReconfiguresWithoutLogfile =>
          /\ \A h \in custom_handlers(DefaultLogger) :
                \E k \in custom_handlers(loggers'[LOGZERO_DEFAULT_LOGGER]) :
                    /\ k.id = h.id
                    /\ k.level = last'.call.level
                    /\ k.fmt = "LogFormatter"
                    /\ SameButLevel(k, [h EXCEPT !.fmt = "LogFormatter"])
          /\ InternalFiles(loggers'[LOGZERO_DEFAULT_LOGGER]) = {}]_vars

\* C26 witness: setup_default_logger without a logfile has just run on the
\* default logger, which carried a log file and a handler of the application;
\* that handler is attached, at the level of the call
C26_Witness ==
    /\ JustCalled("setup_default_logger")
    /\ last.call.logfile = NoFile
    /\ {"file", "application"} \subseteq last.call.found
    /\ InternalFiles(DefaultLogger) = {}
    /\ \E h \in custom_handlers(DefaultLogger) :
          h.level = last.call.level /\ h.level = INFO

\* C29 as stated: a record logged through a logger that lets it pass is
\* emitted by every handler of the logger whose level is at most the severity
\* the record was logged with, whatever formatters the handlers have
C29_EveryHandlerFiltersOnSeverity ==
    (/\ rec.id = nops
     /\ last.at < nops
     /\ rec.severity \in Levels
     /\ isEnabledFor(loggers[rec.name], rec.severity))
        => rec.to = {h \in Range(loggers[rec.name].handlers) : h.level <= rec.severity}

\* the last configuration call gave the default logger a log file with a level
\* of its own: setup_logger(name=LOGZERO_DEFAULT_LOGGER, logfile=f, fileLoglevel=F)
ConfiguredFileLevel ==
    /\ last.call.op = "setup_logger"
    /\ last.call.name = LOGZERO_DEFAULT_LOGGER
    /\ last.call.logfile # NoFile
    /\ last.call.fileLoglevel # NoLevel

\* C25 as stated: after setup_logger(name=LOGZERO_DEFAULT_LOGGER, logfile=f,
\* fileLoglevel=F), loglevel(L) without update_custom_handlers leaves the level
\* of the file handler at F
C25_ConfiguredFileLevelKept ==
    [][(/\ ConfiguredFileLevel
        /\ Calls("loglevel")
        /\ ~ last'.call.update_custom_handlers)
          => \A i \in InternalFiles(loggers'[LOGZERO_DEFAULT_LOGGER]) :
                loggers'[LOGZERO_DEFAULT_LOGGER].handlers[i].level = last.call.fileLoglevel]_vars

\* the internal stream handlers of a logger that emit a record of a severity
ConsoleOutput(lg, severity) ==
    {h \in emitting(lg, severity) : IsInternal(h) /\ h.kind = "StreamHandler"}

\* C28: logfile(f, loglevel=F) sets the threshold of the default logger to F
\* when F is below it and leaves it as it is otherwise; no internal stream
\* handler changes (one that is kept has the level it had), and unless the
\* call disables them the stream handlers emit the records they emitted before
C28_LogfileLowersOnly ==
    [][(Calls("logfile") /\ last'.call.filename # NoFile /\ last'.call.loglevel # NoLevel) =>
          LET old == DefaultLogger
              new == loggers'[LOGZERO_DEFAULT_LOGGER]
              F == last'.call.loglevel
          IN /\ new.level = (IF F < old.level THEN F ELSE old.level)
             /\ new.level <= old.level
             /\ internal_stream_handlers(new) \subseteq internal_stream_handlers(old)
             /\ ~ last'.call.disable_stream_loggers =>
                   /\ internal_stream_handlers(new) = internal_stream_handlers(old)
                   /\ \A severity \in Levels :
                         ConsoleOutput(new, severity) = ConsoleOutput(old, severity)]_vars

\* C28 witness: logfile(f, loglevel=F) has just lowered the threshold of the
\* default logger to F; the internal stream handler is still at a higher level
\* and the file handler is at F
C28_Witness ==
    /\ JustCalled("logfile")
    /\ last.call.filename # NoFile
    /\ last.call.loglevel # NoLevel
    /\ DefaultLogger.level = last.call.loglevel
    /\ \E h \in internal_stream_handlers(DefaultLogger) : h.level > DefaultLogger.level
    /\ \E i \in InternalFiles(DefaultLogger) :
          DefaultLogger.handlers[i].level = last.call.loglevel

\* ------------------------------------------------------ formatting records
\* number of records formatted in a row
MaxFormatOps == 2

InitFormat == Imported(MaxFormatOps)

\* a LogFormatter formats records of every payload, in every time zone
NextFormat ==
    \E msg \in Payloads, nargs \in 0..MaxArgs, datefmt \in DateFormats, utcoffset \in UtcOffsets :
        Format(msg, nargs, datefmt, utcoffset)

SpecFormat == InitFormat /\ [][NextFormat]_vars

\* C24 as stated: LogFormatter.format returns a string for every record and
\* never raises; when getMessage fails on the record, the string carries the
\* fallback text with the error and the record
C24_FormatNeverRaises ==
    JustCalled("format") =>
        /\ ~ out.raised
        /\ out.message # <<>>
        /\ getMessage(last.call.msg, last.call.nargs).raised =>
              out.message = <<"Bad message", getMessage(last.call.msg, last.call.nargs).error,
                              "repr(record.__dict__)">>

\* the position of the sign of the UTC offset in an "iso" timestamp: the
\* offset suffix is the sign, the hours, a colon and the minutes
OffsetSign(timestamp) == Len(timestamp) - 3

\* C30 as stated: for every UTC offset, the "azure" timestamp of a record is
\* its "iso" timestamp with one space inserted right before the sign of the
\* UTC offset
C30_AzureIsIsoWithSpace ==
    (JustCalled("format") /\ ~ out.raised /\ last.call.datefmt = "azure") =>
        LET iso == formatTime("iso", last.call.utcoffset)
        IN /\ iso[OffsetSign(iso)] \in {"+", "-"}
           /\ out.asctime = SubSeq(iso, 1, OffsetSign(iso) - 1) \o <<" ">>
                                \o SubSeq(iso, OffsetSign(iso), Len(iso))

\* C32: setup_logger changes the logger its name denotes and nothing else:
\* every other logger (threshold, propagate flag, handlers with their levels
\* and formatters) is as it was, and so are the module's remembered level and
\* formatter, which a later logfile() gives to its file handler
C32_SetupLoggerFrame ==
    [][Calls("setup_logger") =>
          /\ \A n \in DOMAIN loggers \ {Named(last'.call)} : loggers'[n] = loggers[n]
          /\ _loglevel' = _loglevel
          /\ _formatter' = _formatter
          /\ \A f \in LogfileArgs \ {NoFile} :
                LET before == logfile(DefaultLogger, f, NoFormatter, DefaultMaxBytes,
                                      DefaultBackupCount, NoLevel, FALSE, _loglevel, _formatter)
                    after == logfile(DefaultLogger, f, NoFormatter, DefaultMaxBytes,
                                     DefaultBackupCount, NoLevel, FALSE, _loglevel', _formatter')
                IN after = before]_vars

\* C32 witness: setup_logger has just configured the logger "logzero" with a
\* level and a formatter other than the ones the module remembers for the
\* default logger, which carries a log file
C32_Witness ==
    /\ JustCalled("setup_logger")
    /\ last.call.name = MODULE_NAME
    /\ last.call.level # _loglevel
    /\ _formatter # NoFormatter
    /\ ResolvedFormatter(last.call) # _formatter
    /\ InternalFiles(DefaultLogger) # {}
    /\ InternalStreams(loggers[MODULE_NAME]) # {}

\* the internal syslog handlers of a logger
internal_syslog_handlers(lg) == {lg.handlers[i] : i \in InternalSyslogs(lg)}

\* C34: every logfile() call, with or without a filename, leaves the default
\* logger without internal syslog handler; setup_logger leaves the logger it
\* configures with the syslog handlers it had; loglevel, formatter and json
\* leave the default logger with the syslog handlers it had
C34_SyslogLifetime ==
    [][/\ Calls("logfile") =>
              InternalSyslogs(loggers'[LOGZERO_DEFAULT_LOGGER]) = {}
       /\ Calls("setup_logger") =>
              Cardinality(InternalSyslogs(loggers'[Named(last'.call)])) =
                  Cardinality(InternalSyslogs(loggers[Named(last'.call)]))
       /\ (Calls("loglevel") \/ Calls("formatter") \/ Calls("json")) =>
              InternalSyslogs(loggers'[LOGZERO_DEFAULT_LOGGER]) =
                  InternalSyslogs(DefaultLogger)]_vars

\* C34 witness: logfile(None), with the stream handlers left alone, has just
\* run on the default logger, which carried a syslog handler; it has none now
C34_Witness ==
    /\ JustCalled("logfile")
    /\ last.call.filename = NoFile
    /\ ~ last.call.disable_stream_loggers
    /\ "syslog" \in last.call.found
    /\ InternalSyslogs(DefaultLogger) = {}
    /\ InternalStreams(DefaultLogger) # {}

\* ------------------------------------------- several loggers, one log file
\* number of calls explored when several loggers write to the same log file
MaxSharedOps == 4

\* name and isRootLogger arguments of setup_logger: two named loggers and the root
SharedNameArgs ==
    {<<setup_logger_name_default, FALSE>>, <<LOGZERO_DEFAULT_LOGGER, FALSE>>,
     <<setup_logger_name_default, TRUE>>}

InitShared == Imported(MaxSharedOps)

\* the calls of a program that gives several loggers, the root among them, a
\* file handler on the same file, and logs on any logger
NextShared ==
    \/ \E a \in SharedNameArgs, lf \in LogfileArgs, log_stream \in {"stderr", NoStream} :
          SetupLogger(a[1], lf, DEBUG, NoFormatter, DefaultMaxBytes, DefaultBackupCount,
                      NoLevel, log_stream, a[2], FALSE, FALSE)
    \/ \E name \in LoggerNames, severity \in {INFO, WARNING} : Log(name, severity, ShortRecord)

SpecShared == InitShared /\ [][NextShared]_vars

\* the number of times the record of a call is in a file content
RECURSIVE Copies(_, _)
Copies(content, id) ==
    IF content = <<>> THEN 0
    ELSE (IF Head(content).id = id THEN 1 ELSE 0) + Copies(Tail(content), id)

\* a record has just been logged on a logger that carries an internal file handler
LoggedToFile ==
    /\ rec.id = nops
    /\ last.at < nops
    /\ rec.severity \in Levels
    /\ InternalFiles(loggers[rec.name]) # {}

\* C33: a logger setup_logger has configured does not propagate; a record
\* logged on a logger that carries an internal file handler is handled by
\* handlers of that logger only, by each of them at most once, and is in the
\* log file once, whichever other loggers (the root among them) have a file
\* handler on the same file
C33_NoCrossLoggerDelivery ==
    /\ JustCalled("setup_logger") => ~ loggers[Named(last.call)].propagate
    /\ LoggedToFile =>
          /\ rec.to \subseteq Range(loggers[rec.name].handlers)
          /\ rec.emitted = Cardinality(rec.to)
          /\ Copies(fs.active, rec.id) = 1
          /\ \A i \in DOMAIN fs.backups : Copies(fs.backups[i], rec.id) = 0

\* C33 witness: a record has just been logged on the logger "logzero" while
\* that logger, the default logger and the root logger each have a file
\* handler on the same file; the record is in the file
C33_Witness ==
    /\ LoggedToFile
    /\ rec.name = MODULE_NAME
    /\ \A n \in LoggerNames : InternalFiles(loggers[n]) # {}
    /\ \A n \in LoggerNames : \A i \in InternalFiles(loggers[n]) :
          loggers[n].handlers[i].target = "f.log"
    /\ Copies(fs.active, rec.id) = 1

\* ------------------------------------------ setup_logger calls that interleave
\* The statements of setup_logger, one action each, for calls made by several
\* threads on the logger "logzero".  Handlers are objects: the handlers a
\* call creates carry a number of their own in id, and removing or
\* configuring a handler acts on the object with that number.
RaceLogger == MODULE_NAME

\* the numbers of the stream handler and of the file handler thread t creates
StreamId(t) == 2 * t - 1
FileId(t) == 2 * t

\* a call is between its first and its last statement
Running(t) == threads[t].pc \notin {"idle", "done"}

\* Logger.removeHandler(handler): the handlers without that object
RECURSIVE removeHandler(_, _)
removeHandler(hs, handler) ==
    IF hs = <<>> THEN <<>>
    ELSE IF Head(hs).id = handler.id THEN Tail(hs)
    ELSE <<Head(hs)>> \o removeHandler(Tail(hs), handler)

\* handler.setLevel(level) on an object, seen through the list of handlers
\* of the logger
handler_setLevel(hs, handler, level) ==
    [i \in DOMAIN hs |-> IF hs[i].id = handler.id THEN [hs[i] EXCEPT !.level = level] ELSE hs[i]]

\* handler.setFormatter(_formatter) on an object, seen through the list of
\* handlers of the logger
handler_setFormatter(hs, handler, fmt) ==
    [i \in DOMAIN hs |-> IF hs[i].id = handler.id THEN [hs[i] EXCEPT !.fmt = fmt] ELSE hs[i]]

\* mutant: the loop goes through no handler
snapshot_of_nothing(lg) == <<>>

\* list(_logger.handlers): the handlers the loop will go through
snapshot(lg) == lg.handlers

\* lines 133-134: the logger is looked up and its propagate flag is set.
\* Thread t is the t-th thread to call: the threads before it have called
Enter(t, lf, level, log_stream) ==
    /\ threads[t].pc = "idle"
    /\ \A u \in Threads : u < t => threads[u].pc # "idle"
    /\ loggers' = [loggers EXCEPT ![RaceLogger] =
                      [@ EXCEPT !.propagate = propagate_after_setup(@)]]
    /\ threads' = [u \in Threads |->
                      IF u = t
                      THEN [pc |-> "setLevel",
                            call |-> [logfile |-> lf, level |-> level,
                                      log_stream |-> checked_log_stream(log_stream)],
                            entered |-> loggers[RaceLogger], todo |-> <<>>, std |-> NoHandler,
                            overlapped |-> \E v \in Threads \ {t} : Running(v)]
                      ELSE [threads[u] EXCEPT !.overlapped = @ \/ Running(u)]]
    /\ UNCHANGED <<_loglevel, _formatter, fs, last, rec, out, nops, limit>>

\* lines 137-146: the level of the logger is set, a write of its own to the
\* logger; the formatter is resolved into a local, and the log_stream
\* arguments here are valid ones, so no warning is logged
SetLevel(t) ==
    /\ threads[t].pc = "setLevel"
    /\ loggers' = [loggers EXCEPT ![RaceLogger].level = minLevel(threads[t].call.level, NoLevel)]
    /\ threads' = [threads EXCEPT ![t].pc = "for"]
    /\ UNCHANGED <<_loglevel, _formatter, fs, last, rec, out, nops, limit>>

\* line 150: `for handler in list(_logger.handlers)` takes its copy of the list
Snapshot(t) ==
    /\ threads[t].pc = "for"
    /\ threads' = [threads EXCEPT ![t].pc = "loop", ![t].todo = snapshot(loggers[RaceLogger])]
    /\ UNCHANGED <<loggers, _loglevel, _formatter, fs, last, rec, out, nops, limit>>

\* lines 151-167: one turn of the loop up to its first write: the handler is
\* removed and the loop goes on, or it is kept and its level is set
Visit(t) ==
    /\ threads[t].pc = "loop"
    /\ threads[t].todo # <<>>
    /\ LET handler == Head(threads[t].todo)
           call == threads[t].call
           removed == \/ IsInternal(handler) /\ IsFileHandler(handler)
                      \/ /\ IsInternal(handler)
                         /\ IsStreamHandler(handler)
                         /\ remove_stream_handler(threads[t].std, call.log_stream)
       IN /\ loggers' = [loggers EXCEPT ![RaceLogger].handlers =
                            IF removed THEN removeHandler(@, handler)
                            ELSE handler_setLevel(@, handler, call.level)]
          /\ threads' = [threads EXCEPT
                            ![t].pc = IF removed THEN "loop" ELSE "setFormatter",
                            ![t].todo = IF removed THEN Tail(@) ELSE @,
                            ![t].std = IF ~ removed /\ IsInternal(handler) /\ IsStreamHandler(handler)
                                       THEN handler ELSE @]
    /\ UNCHANGED <<_loglevel, _formatter, fs, last, rec, out, nops, limit>>

\* line 168: the formatter of the handler is set, and the loop goes on
SetFormatter(t) ==
    /\ threads[t].pc = "setFormatter"
    /\ loggers' = [loggers EXCEPT ![RaceLogger].handlers =
                      handler_setFormatter(@, Head(threads[t].todo),
                                           resolve_formatter(NoFormatter, FALSE, FALSE))]
    /\ threads' = [threads EXCEPT ![t].pc = "loop", ![t].todo = Tail(@)]
    /\ UNCHANGED <<_loglevel, _formatter, fs, last, rec, out, nops, limit>>

\* lines 170-176: the stream handler is created if the loop has found none
AddStream(t) ==
    /\ threads[t].pc = "loop"
    /\ threads[t].todo = <<>>
    /\ LET call == threads[t].call
           created == [NewStreamHandler(call.log_stream, call.level,
                                        resolve_formatter(NoFormatter, FALSE, FALSE))
                          EXCEPT !.id = StreamId(t)]
       IN loggers' = [loggers EXCEPT ![RaceLogger].handlers =
                         IF need_stream_handler(call.log_stream, threads[t].std)
                         THEN Append(@, created) ELSE @]
    /\ threads' = [threads EXCEPT ![t].pc = "if logfile"]
    /\ UNCHANGED <<_loglevel, _formatter, fs, last, rec, out, nops, limit>>

\* lines 178-188: the file handler is created if a logfile is given, and the
\* call returns
AddFile(t) ==
    /\ threads[t].pc = "if logfile"
    /\ LET call == threads[t].call
           created == [NewFileHandler(call.logfile, file_level(NoLevel, call.level),
                                      resolve_formatter(NoFormatter, FALSE, FALSE), FALSE,
                                      DefaultMaxBytes, DefaultBackupCount)
                          EXCEPT !.id = FileId(t)]
       IN loggers' = [loggers EXCEPT ![RaceLogger].handlers =
                         IF call.logfile # NoFile THEN Append(@, created) ELSE @]
    /\ threads' = [threads EXCEPT ![t].pc = "done"]
    /\ UNCHANGED <<_loglevel, _formatter, fs, last, rec, out, nops, limit>>

InitRace == ImportedBy(MaxOps, Threads)

\* every thread calls setup_logger once on the logger "logzero", and the
\* statements of the calls run in any order
NextRace ==
    \/ \E t \in Threads, lf \in LogfileArgs, level \in {DEBUG, INFO},
          log_stream \in {"stderr", NoStream} : Enter(t, lf, level, log_stream)
    \/ \E t \in Threads : SetLevel(t)
    \/ \E t \in Threads : Snapshot(t)
    \/ \E t \in Threads : Visit(t)
    \/ \E t \in Threads : SetFormatter(t)
    \/ \E t \in Threads : AddStream(t)
    \/ \E t \in Threads : AddFile(t)

SpecRace == InitRace /\ [][NextRace]_vars

\* a logger without the numbers of its handler objects
Anonymous(lg) ==
    [lg EXCEPT !.handlers = [i \in DOMAIN lg.handlers |-> [lg.handlers[i] EXCEPT !.id = 0]]]

\* the logger setup_logger returns for the arguments of a thread's call
Returned(lg, call) ==
    setup_logger(lg, call.logfile, call.level, NoFormatter, DefaultMaxBytes,
                 DefaultBackupCount, NoLevel, call.log_stream, FALSE, FALSE)

\* no setup_logger call made so far has run while another one was running
Serialized == \A t \in Threads : ~ threads[t].overlapped

\* C31, the serialized half: a setup_logger call that no other call on the
\* logger overlaps leaves the logger as setup_logger run in one piece does,
\* and as long as no two calls have overlapped the logger has at most one
\* internal stream handler and at most one internal file handler
C31_SerializedCallsAreSafe ==
    [][\A t \in Threads :
          (threads[t].pc = "if logfile" /\ threads'[t].pc = "done" /\ ~ threads'[t].overlapped) =>
              /\ Anonymous(loggers'[RaceLogger]) =
                    Returned(Anonymous(threads[t].entered), threads[t].call)
              /\ Serialized' =>
                    /\ Cardinality(InternalStreams(loggers'[RaceLogger])) <= 1
                    /\ Cardinality(InternalFiles(loggers'[RaceLogger])) <= 1]_vars

\* C31 witness, the interleaved half: two setup_logger calls on the logger
\* have run, their statements interleaved, and the logger has two internal
\* stream handlers and two internal file handlers; neither order of the two
\* calls, run one after the other, leaves the logger so
C31_Witness ==
    /\ \A t \in Threads : threads[t].pc = "done" /\ threads[t].overlapped
    /\ Cardinality(InternalStreams(loggers[RaceLogger])) = 2
    /\ Cardinality(InternalFiles(loggers[RaceLogger])) = 2
    /\ \A t, u \in Threads :
          t # u => Anonymous(loggers[RaceLogger]) #
                      Returned(Returned(NewLogger, threads[t].call), threads[u].call)

====
